---- MODULE Spec2Model ----
(***************************************************************************)
(* Churros AI lead generation: the profile acquisition, enrichment and     *)
(* aggregation pipeline.                                                   *)
(*                                                                         *)
(* The repository holds three revisions of the on-demand-scrape route and  *)
(* two of the generate-leads route.  They are told apart by a suffix:      *)
(*   _route  src/app/api/on-demand-scrape/route.ts,                         *)
(*           src/app/api/generate-leads/route.ts                           *)
(*   _p5a    src/unnamed/part_005, lines 1-606                             *)
(*   _p5b    src/unnamed/part_005, lines 607-1346                          *)
(*   _p8     src/unnamed/part_008                                          *)
(*                                                                         *)
(* JavaScript strings that the code inspects or concatenates are sequences *)
(* of one-character strings; scores are integers in hundredths (0.7 = 70). *)
(***************************************************************************)
EXTENDS Integers, Sequences, FiniteSets, TLC

\* ------------------------------------------------------------------ bounds
\* largest `limit` a request carries
MaxLimit == 2
\* longest list an external service (search page, API, model) answers with
MaxItems == 2
\* longest lead list the store or the acquisition endpoint answers with
MaxLeads == 2

\* ----------------------------------------------------------------- helpers
Min(a, b) == IF a < b THEN a ELSE b
Max(a, b) == IF a > b THEN a ELSE b

Range(s) == { s[i] : i \in 1..Len(s) }

\* s.slice(0, n) for n >= 0
Take(s, n) == SubSeq(s, 1, Min(n, Len(s)))

\* sequences over S of length at most n
SeqsUpTo(S, n) == UNION { [1..k -> S] : k \in 0..n }

\* sequences over S of length at most n without repeated elements
DistinctSeqsUpTo(S, n) ==
  { s \in SeqsUpTo(S, n) : \A i, j \in 1..Len(s) : i # j => s[i] # s[j] }

\* [...new Set(s)]: first occurrence of every element, in order
RECURSIVE SetOrder(_)
SetOrder(s) ==
  IF s = <<>> THEN <<>>
  ELSE LET init == SetOrder(SubSeq(s, 1, Len(s) - 1))
           x    == s[Len(s)]
       IN IF x \in Range(init) THEN init ELSE Append(init, x)

\* the outcome of a call: a value, or a thrown Error with a message class
Ok(v)  == [ok |-> TRUE,  val |-> v,    err |-> "none"]
Err(m) == [ok |-> FALSE, val |-> <<>>, err |-> m]

\* ------------------------------------------------------------ JSON values
JUndefined == [t |-> "undefined", s |-> <<>>, n |-> 0, a |-> <<>>, d |-> 1]
JNull      == [t |-> "null",      s |-> <<>>, n |-> 0, a |-> <<>>, d |-> 1]
JStr(str)  == [t |-> "string",    s |-> str,  n |-> 0, a |-> <<>>, d |-> 1]
JNum(num)  == [t |-> "number",    s |-> <<>>, n |-> num, a |-> <<>>, d |-> 1]
JArr(arr)  == [t |-> "array",     s |-> <<>>, n |-> 0, a |-> arr, d |-> 1]

\* JavaScript truthiness, as used by `x || y`
Truthy(v) ==
  CASE v.t = "undefined" -> FALSE
    [] v.t = "null"      -> FALSE
    [] v.t = "string"    -> v.s # <<>>
    [] v.t = "number"    -> v.n # 0
    [] OTHER             -> TRUE

OrElse(v, d) == IF Truthy(v) THEN v ELSE d

\* whether `...v` can be spread into an array literal
Iterable(v) == v.t \in {"string", "array"}

\* the elements `...v` yields: the items of an array, the characters of a string
Spread(v) ==
  IF v.t = "array" THEN v.a ELSE [i \in 1..Len(v.s) |-> JStr(<<v.s[i]>>)]

\* an array of strings
Strs(s) == [i \in 1..Len(s) |-> JStr(s[i])]

\* a number n/d in hundredths (d = 1 unless the code divides)
JFrac(num, den) == [t |-> "number", s |-> <<>>, n |-> num, a |-> <<>>, d |-> den]

\* ------------------------------------------------------------------- text
UpperCase == <<"A","B","C","D","E","F","G","H","I","J","K","L","M","N","O","P","Q","R","S","T","U","V","W","X","Y","Z">>
LowerCase == <<"a","b","c","d","e","f","g","h","i","j","k","l","m","n","o","p","q","r","s","t","u","v","w","x","y","z">>
Letters == Range(LowerCase)
Digits == {"0","1","2","3","4","5","6","7","8","9"}

ToLowerChar(c) ==
  IF \E i \in 1..Len(UpperCase) : UpperCase[i] = c
  THEN LowerCase[CHOOSE i \in 1..Len(UpperCase) : UpperCase[i] = c]
  ELSE c

\* String.prototype.toLowerCase
ToLowerCase(text) == [i \in 1..Len(text) |-> ToLowerChar(text[i])]

\* String.prototype.includes
Includes(text, kw) ==
  \E i \in 0..(Len(text) - Len(kw)) : SubSeq(text, i + 1, i + Len(kw)) = kw

IsSpace(c) == c = " "

\* String.prototype.split(/\s+/): the pieces between whitespace runs, the
\* empty pieces at the two ends included
RECURSIVE SplitWs(_, _, _, _)
SplitWs(text, i, cur, prevWs) ==
  IF i > Len(text) THEN <<cur>>
  ELSE IF IsSpace(text[i])
       THEN IF prevWs THEN SplitWs(text, i + 1, cur, TRUE)
            ELSE <<cur>> \o SplitWs(text, i + 1, <<>>, TRUE)
       ELSE SplitWs(text, i + 1, Append(cur, text[i]), FALSE)

\* keyword.replace(/\s+/g, '-')
RECURSIVE DashSpaces(_, _, _)
DashSpaces(text, i, prevWs) ==
  IF i > Len(text) THEN <<>>
  ELSE IF IsSpace(text[i])
       THEN (IF prevWs THEN <<>> ELSE <<"-">>) \o DashSpaces(text, i + 1, TRUE)
       ELSE <<text[i]>> \o DashSpaces(text, i + 1, FALSE)

\* Array.prototype.filter with the predicate given as a set of accepted values
RECURSIVE Filter(_, _)
Filter(s, keep) ==
  IF s = <<>> THEN <<>>
  ELSE (IF Head(s) \in keep THEN <<Head(s)>> ELSE <<>>) \o Filter(Tail(s), keep)

\* insert x behind every element whose key is not smaller (keeps insertion order
\* among equal keys)
RECURSIVE InsertDesc(_, _, _)
InsertDesc(sorted, x, key) ==
  IF sorted = <<>> THEN <<x>>
  ELSE IF key[Head(sorted)] >= key[x]
       THEN <<Head(sorted)>> \o InsertDesc(Tail(sorted), x, key)
       ELSE <<x>> \o sorted

\* Array.prototype.sort((a, b) => key[b] - key[a]), a stable sort
RECURSIVE SortDesc(_, _)
SortDesc(s, key) ==
  IF s = <<>> THEN <<>>
  ELSE InsertDesc(SortDesc(SubSeq(s, 1, Len(s) - 1), key), s[Len(s)], key)

\* ------------------------------------------------------------ extractTags
techKeywords ==
  << <<"j","a","v","a","s","c","r","i","p","t">>,
     <<"p","y","t","h","o","n">>,
     <<"r","e","a","c","t">>,
     <<"n","o","d","e">>,
     <<"t","y","p","e","s","c","r","i","p","t">>,
     <<"j","a","v","a">>,
     <<"g","o">>,
     <<"r","u","s","t">>,
     <<"a","i">>,
     <<"m","l">>,
     <<"m","a","c","h","i","n","e"," ","l","e","a","r","n","i","n","g">>,
     <<"d","a","t","a"," ","s","c","i","e","n","c","e">>,
     <<"f","r","o","n","t","e","n","d">>,
     <<"b","a","c","k","e","n","d">>,
     <<"d","e","v","o","p","s">>,
     <<"c","l","o","u","d">>,
     <<"a","w","s">>,
     <<"d","o","c","k","e","r">>,
     <<"k","u","b","e","r","n","e","t","e","s">>,
     <<"s","q","l">>,
     <<"n","o","s","q","l">>,
     <<"d","e","s","i","g","n">>,
     <<"u","x">>,
     <<"u","i">>,
     <<"p","r","o","d","u","c","t">>,
     <<"m","a","n","a","g","e","m","e","n","t">>,
     <<"l","e","a","d","e","r","s","h","i","p">> >>

\* most tags a profile gets from extractTags
TagLimit == 10

\* on-demand-scrape/route.ts: the fixed keywords the text contains
extractTags_route(text) ==
  LET textLower == ToLowerCase(text)
      hits == { i \in 1..Len(techKeywords) : Includes(textLower, techKeywords[i]) }
      RECURSIVE Collect(_)
      Collect(i) ==
        IF i > Len(techKeywords) THEN <<>>
        ELSE (IF i \in hits THEN <<DashSpaces(techKeywords[i], 1, FALSE)>> ELSE <<>>)
             \o Collect(i + 1)
  IN Take(Collect(1), TagLimit)

commonWords ==
  { <<"a">>, <<"a","n">>, <<"t","h","e">>, <<"a","n","d">>, <<"o","r">>,
    <<"i","n">>, <<"o","n">>, <<"a","t">>, <<"t","o">>, <<"f","o","r">>,
    <<"w","i","t","h">>, <<"b","y">>, <<"a","s">>, <<"i">>, <<"y","o","u">>,
    <<"h","e">>, <<"s","h","e">>, <<"i","t">>, <<"w","e">>, <<"t","h","e","y">> }

\* text.toLowerCase().replace(/[^a-z0-9#+\-.]/g, ' ')
Sanitize(text) ==
  [i \in 1..Len(text) |->
     IF ToLowerChar(text[i]) \in Letters \cup Digits \cup {"#", "+", "-", "."}
     THEN ToLowerChar(text[i]) ELSE " "]

AllDigits(w) == Len(w) >= 1 /\ \A i \in 1..Len(w) : w[i] \in Digits
AllLetters(w) == \A i \in 1..Len(w) : w[i] \in Letters

\* the filter on length, common words and numbers
Words(pieces) ==
  Filter(pieces, { w \in Range(pieces) :
                     Len(w) > 1 /\ w \notin commonWords /\ ~AllDigits(w) })

\* words with a technical character, or made of 2 to 20 letters
PotentialTags(words) ==
  Filter(words, { w \in Range(words) :
                    \/ "#" \in Range(w)
                    \/ "+" \in Range(w)
                    \/ "." \in Range(w)
                    \/ (AllLetters(w) /\ Len(w) >= 2 /\ Len(w) <= 20) })

\* the lower-case word that names a property every object literal inherits:
\* tagCounts[tag] of a fresh {} is then the inherited function, not undefined
InheritedKeys == { <<"c","o","n","s","t","r","u","c","t","o","r">> }

\* tagCounts[tag] = (tagCounts[tag] || 0) + 1: the tags whose count is not a
\* number, because the first increment adds 1 to the inherited function
NotNumbers(potentialTags) == Range(potentialTags) \cap InheritedKeys

\* the number of occurrences, for the tags whose count is a number
TagCounts(potentialTags) ==
  [w \in Range(potentialTags) |->
     Cardinality({ i \in 1..Len(potentialTags) : potentialTags[i] = w })]

\* insert x behind every element the comparator does not put behind x; the
\* comparator tagCounts[b] - tagCounts[a] is NaN, taken as 0, as soon as one
\* of the two counts is not a number
RECURSIVE InsertTag(_, _, _, _)
InsertTag(sorted, x, tagCounts, nan) ==
  IF sorted = <<>> THEN <<x>>
  ELSE IF Head(sorted) \in nan \/ x \in nan \/ tagCounts[Head(sorted)] >= tagCounts[x]
       THEN <<Head(sorted)>> \o InsertTag(Tail(sorted), x, tagCounts, nan)
       ELSE <<x>> \o sorted

RECURSIVE SortTags(_, _, _)
SortTags(keys, tagCounts, nan) ==
  IF keys = <<>> THEN <<>>
  ELSE InsertTag(SortTags(SubSeq(keys, 1, Len(keys) - 1), tagCounts, nan),
                 keys[Len(keys)], tagCounts, nan)

\* Object.keys(tagCounts).sort((a, b) => tagCounts[b] - tagCounts[a]).slice(0, 10)
RankTags(potentialTags, keys) ==
  Take(SortTags(keys, TagCounts(potentialTags), NotNumbers(potentialTags)), TagLimit)

CountTags(potentialTags) == RankTags(potentialTags, SetOrder(potentialTags))

\* part_005: the most frequent word-like tokens of the text
extractTags(text) ==
  IF text = <<>> THEN <<>>
  ELSE CountTags(PotentialTags(Words(SplitWs(Sanitize(text), 1, <<>>, FALSE))))

\* --------------------------------------------- the people the platforms know
\* what a platform's pages and API tell about an account; <<>> stands for an
\* absent (null) string
People == {"ann", "bob", "acme", "dan", "eve"}

Account ==
  [ ann  |-> [login |-> <<"a","n","n">>, name |-> <<"A","n","n">>,
              bio |-> <<"r","e","a","c","t"," ","a","i">>,
              type |-> "User", public_repos |-> 3, detailOk |-> TRUE],
    bob  |-> [login |-> <<"b","o","b">>, name |-> <<>>, bio |-> <<>>,
              type |-> "User", public_repos |-> 0, detailOk |-> TRUE],
    acme |-> [login |-> <<"a","c","m","e">>, name |-> <<"A","c","m","e">>,
              bio |-> <<"c","l","o","u","d">>,
              type |-> "Organization", public_repos |-> 5, detailOk |-> TRUE],
    dan  |-> [login |-> <<"d","a","n">>, name |-> <<"A","n","n">>,
              bio |-> <<"g","o"," ","g","o"," ","a","i">>,
              type |-> "User", public_repos |-> 1, detailOk |-> TRUE],
    eve  |-> [login |-> <<"e","v","e">>, name |-> <<"E","v","e">>,
              bio |-> <<"m","l">>,
              type |-> "User", public_repos |-> 2, detailOk |-> FALSE] ]

\* a result card without a user link
NoLink == "nolink"

\* the Profile of lib/types; fit_summary is null until enrichment
Profile(id, name, bio, platform, tags, score) ==
  [id |-> id, name |-> name, bio |-> bio, platform |-> platform,
   tags |-> Strs(tags), score |-> JNum(score), fit_summary |-> JNull]

Variants == {"route", "p5a", "p5b"}

\* the extractTags of the revision
ExtractTagsOf(v, text) ==
  IF v = "route" THEN extractTags_route(text) ELSE extractTags(text)

\* ---------------------------------------------------- answers of a service
NotCalled == [kind |-> "none",   status |-> 0, items |-> <<>>]
Throws    == [kind |-> "throw",  status |-> 0, items |-> <<>>]
Status(c) == [kind |-> "status", status |-> c, items |-> <<>>]
Found(l)  == [kind |-> "ok",     status |-> 200, items |-> l]

\* non-OK statuses a search API answers with
ErrorStatuses == {401, 403, 500}

\* what the GitHub user-search API may answer to one call asking for n users
ApiOutcomes(n) ==
  {Throws} \cup { Status(c) : c \in ErrorStatuses }
           \cup { Found(l) : l \in DistinctSeqsUpTo(People, Min(n, MaxItems)) }

\* the result cards a search page may hold
Cards == {"ann", "bob", "acme", "dan", NoLink}

\* what a search-results page may show: a navigation error or a list of cards
PageOutcomes ==
  {Throws} \cup { Found(l) : l \in DistinctSeqsUpTo(Cards, MaxItems) }

\* ---------------------------------------------------- scrapeGitHubWithAPI
\* route.ts: the profile of a user the API lists; the detail fetch may fail
ApiProfile_route(user, id) ==
  Profile(id,
          IF user.detailOk /\ user.name # <<>> THEN user.name ELSE user.login,
          IF user.detailOk /\ user.bio # <<>> THEN user.bio
          ELSE <<"A","c","t","i","v","e"," ","G","i","t","H","u","b"," ","d","e","v","e","l","o","p","e","r">>,
          "github",
          extractTags_route((IF user.detailOk THEN user.bio ELSE <<>>)
                            \o <<" ">> \o user.login \o <<" ">>),
          70)

\* route.ts: every failure is an empty list
scrapeGitHubWithAPI_route(out, limit, id0) ==
  LET RECURSIVE Loop(_, _)
      Loop(i, profiles) ==
        IF i > Len(out.items) THEN profiles
        ELSE
          LET user == Account[out.items[i]]
              inactive == user.detailOk /\ user.bio = <<>> /\ user.public_repos < 1
              Pushed(next) == IF Len(next) >= limit THEN next ELSE Loop(i + 1, next)
          IN IF user.type = "Organization" \/ inactive
             THEN Loop(i + 1, profiles)
             ELSE Pushed(Append(profiles, ApiProfile_route(user, id0 + Len(profiles))))
  IN IF out.kind = "ok" THEN Ok(Loop(1, <<>>)) ELSE Ok(<<>>)

\* the item loop of part_005
ApiProfiles_p5(items, limit, id0) ==
  LET RECURSIVE Loop(_, _)
      Loop(i, profiles) ==
        IF i > Len(items) \/ Len(profiles) >= limit THEN profiles
        ELSE
          LET user == Account[items[i]]
              text == IF user.bio # <<>> THEN user.bio
                      ELSE <<" ">> \o user.login \o <<" ">> \o user.name
              profile == Profile(id0 + Len(profiles),
                           IF user.name # <<>> THEN user.name ELSE user.login,
                           IF user.bio # <<>> THEN user.bio
                           ELSE <<"A"," ","d","e","v","e","l","o","p","e","r"," ","o","n"," ","G","i","t","H","u","b",".">>,
                           "github", extractTags(text), 80)
          IN IF user.type = "Organization" \/ ~user.detailOk
             THEN Loop(i + 1, profiles)
             ELSE Loop(i + 1, Append(profiles, profile))
  IN Loop(1, <<>>)

\* part_005, first revision: every failure is an empty list
scrapeGitHubWithAPI_p5a(token, out, limit, id0) ==
  IF ~token THEN Ok(<<>>)
  ELSE IF out.kind = "ok" THEN Ok(ApiProfiles_p5(out.items, limit, id0))
  ELSE Ok(<<>>)

\* part_005, second revision: a non-OK answer and a network error are thrown
scrapeGitHubWithAPI_p5b(token, out, limit, id0) ==
  IF ~token THEN Ok(<<>>)
  ELSE CASE out.kind = "ok" -> Ok(ApiProfiles_p5(out.items, limit, id0))
         [] out.kind = "status" /\ out.status = 401 -> Err("GitHub API Unauthorized")
         [] out.kind = "status" /\ out.status = 403 -> Err("GitHub API Forbidden")
         [] out.kind = "status" /\ out.status \notin {401, 403} -> Err("GitHub API Error")
         [] OTHER -> Err("fetch failed")

scrapeGitHubWithAPI(v, token, out, limit, id0) ==
  CASE v = "route" -> scrapeGitHubWithAPI_route(out, limit, id0)
    [] v = "p5a"   -> scrapeGitHubWithAPI_p5a(token, out, limit, id0)
    [] OTHER       -> scrapeGitHubWithAPI_p5b(token, out, limit, id0)

\* --------------------------------------------------- scrapeGitHubProfiles
\* the result cards of a search page turned into profiles (the loop shared by
\* the GitHub, Twitter and LinkedIn page scrapers); needsName: cards without a
\* display name are skipped
CardProfiles(v, cards, platform, needsName, limit, id0) ==
  LET RECURSIVE Loop(_, _)
      Loop(i, profiles) ==
        IF i > Min(limit, Len(cards)) THEN profiles
        ELSE IF cards[i] = NoLink \/ (needsName /\ Account[cards[i]].name = <<>>)
             THEN Loop(i + 1, profiles)
             ELSE
               LET user == Account[cards[i]]
                   username == user.login
                   name == IF user.name # <<>> THEN user.name ELSE username
                   bio == IF user.bio # <<>> \/ platform # "github" THEN user.bio
                          ELSE <<"G","i","t","H","u","b"," ","u","s","e","r"," ">> \o username
                   text == IF platform = "linkedin" THEN user.bio \o <<" ">>
                           ELSE user.bio \o <<" ">> \o username
               IN Loop(i + 1, Append(profiles,
                    Profile(id0 + Len(profiles), name, bio, platform,
                            ExtractTagsOf(v, text), 70)))
  IN Loop(1, <<>>)

\* the branch scrapeGitHubProfiles takes: r1, r2 what the first and the second
\* call of the API return, cards what the card loop returns
GitHubStage(page, o1, o2, r1, r2, cards) ==
  CASE page.kind = "throw" -> [res |-> r1, api |-> <<o1>>]
    [] page.kind = "ok" /\ page.items = <<>> ->
         IF r1.ok THEN [res |-> r1, api |-> <<o1>>]
         ELSE [res |-> r2, api |-> <<o1, o2>>]
    [] OTHER -> [res |-> Ok(cards), api |-> <<>>]

\* browser scrape first; the official API when the page shows no card or the
\* scrape throws.  page: what the search page shows; o1, o2: what the API
\* answers to the first and to the second call.  api: the calls made.
scrapeGitHubProfiles(v, token, page, o1, o2, limit, id0) ==
  GitHubStage(page, o1, o2,
              scrapeGitHubWithAPI(v, token, o1, limit, id0),
              scrapeGitHubWithAPI(v, token, o2, limit, id0),
              CardProfiles(v, page.items, "github", FALSE, limit, id0))

\* whether scrapeGitHubProfiles calls the API at all, and a second time
CallsApi(page) == page.kind = "throw" \/ page.items = <<>>
CallsApiAgain(v, token, page, o1, limit) ==
  /\ page.kind = "ok" /\ page.items = <<>>
  /\ ~scrapeGitHubWithAPI(v, token, o1, limit, 0).ok

\* --------------------------------------------------- scrapeGitHubFromRepos
\* repositories whose contributors are looked at
RepoSlice == 5

\* a matching repository: its name, whether its contributor list can be
\* fetched, and the list
Repo(ok, contributors) ==
  [name |-> <<"k","i","t">>, ok |-> ok, contributors |-> contributors]

\* the repositories a search may list
Repositories ==
  { Repo(FALSE, <<>>), Repo(TRUE, <<"ann">>), Repo(TRUE, <<"eve", "bob">>) }

\* what the repository search may answer
RepoOutcomes ==
  {Throws, Status(403)} \cup
  { Found(l) : l \in DistinctSeqsUpTo(Repositories, MaxItems) }

scrapeGitHubFromRepos(token, out, limit, id0) ==
  LET repos == Take(out.items, RepoSlice)
      RECURSIVE Contributors(_, _, _)
      Contributors(repo, j, profiles) ==
        IF j > Len(repo.contributors) \/ Len(profiles) >= limit THEN profiles
        ELSE
          LET user == Account[repo.contributors[j]]
              text == IF user.bio # <<>> THEN user.bio
                      ELSE <<" ">> \o user.login \o <<" ">> \o user.name
                           \o <<" ">> \o repo.name
              profile == Profile(id0 + Len(profiles),
                           IF user.name # <<>> THEN user.name ELSE user.login,
                           IF user.bio # <<>> THEN user.bio
                           ELSE <<"C","o","n","t","r","i","b","u","t","o","r"," ","t","o"," ">>
                                \o repo.name,
                           "github", extractTags(text), 80)
          IN IF (\E k \in 1..Len(profiles) : profiles[k].name = user.login)
                \/ ~user.detailOk
             THEN Contributors(repo, j + 1, profiles)
             ELSE Contributors(repo, j + 1, Append(profiles, profile))
      RECURSIVE Repos(_, _)
      Repos(i, profiles) ==
        IF i > Len(repos) \/ Len(profiles) >= limit THEN profiles
        ELSE IF ~repos[i].ok THEN Repos(i + 1, profiles)
             ELSE Repos(i + 1, Contributors(repos[i], 1, profiles))
  IN IF token /\ out.kind = "ok" THEN Repos(1, <<>>) ELSE <<>>

\* ------------------------------------------------- Twitter and LinkedIn
\* route.ts: a page scrape that waits for a first result cell and rethrows
scrapePageProfiles_route(page, platform, limit, id0) ==
  IF page.kind = "throw" \/ page.items = <<>> THEN Err("page")
  ELSE Ok(CardProfiles("route", page.items, platform, platform = "linkedin", limit, id0))

\* part_005: the Twitter API; every failure is an empty list
scrapeTwitterProfiles_p5(out, limit, id0) ==
  IF out.kind # "ok" THEN <<>>
  ELSE LET users == Take(out.items, limit)
       IN [i \in 1..Len(users) |->
            LET user == Account[users[i]]
                text == IF user.bio # <<>> THEN user.bio
                        ELSE <<" ">> \o user.name \o <<" ">> \o user.login
            IN Profile(id0 + i - 1, user.name,
                       IF user.bio # <<>> THEN user.bio
                       ELSE <<"A"," ","u","s","e","r"," ","o","n"," ","T","w","i","t","t","e","r","/","X",".">>,
                       "twitter", extractTags(text), 75)]

\* part_005: not implemented
scrapeLinkedInProfiles_p5 == <<>>

\* --------------------------------------------------------- scrapeProfiles
Platforms == {"github", "twitter", "linkedin", "substack"}

\* what the world answers during one scrapeProfiles call:
\*   launch  chromium.launch succeeds      setup  newPage and the page setup succeed
\*   page    the search page               o1, o2 the GitHub API's answers
\*   repos   the repository search         tw     the Twitter API
World(launch, setup, page, o1, o2, repos, tw) ==
  [launch |-> launch, setup |-> setup, page |-> page, o1 |-> o1, o2 |-> o2,
   repos |-> repos, tw |-> tw]

\* the result of scrapeProfiles with what it did to browsers and to the API
Scraped(res, launched, closed, api) ==
  [res |-> res, launched |-> launched, closed |-> closed, api |-> api]

\* `throw new Error(`Scraping failed: ${error.message}`)` keeps the message
Rethrow(r) == Err(r.err)

\* the end of scrapeProfiles once the browser is up: the platform stage
\* returned or threw; closes: whether the browser is closed when it threw
Finish(stage, api, closes) ==
  IF stage.ok THEN Scraped(stage, 1, 1, api)
  ELSE Scraped(Rethrow(stage), 1, IF closes THEN 1 ELSE 0, api)

\* the same for the GitHub stage, which reports its API calls
FinishGitHub(gh, closes) == Finish(gh.res, gh.api, closes)

\* on-demand-scrape/route.ts: browser.close() is the last statement of the try
scrapeProfiles_route(platform, limit, w, id0) ==
  IF ~w.launch THEN Scraped(Err("launch"), 0, 0, <<>>)
  ELSE IF ~w.setup THEN Scraped(Err("page"), 1, 0, <<>>)
  ELSE
    CASE platform = "github" ->
           FinishGitHub(scrapeGitHubProfiles("route", TRUE, w.page, w.o1, w.o2,
                                             limit, id0), FALSE)
      [] platform \in {"twitter", "linkedin"} ->
           Finish(scrapePageProfiles_route(w.page, platform, limit, id0), <<>>, FALSE)
      [] OTHER -> Finish(Ok(<<>>), <<>>, FALSE)

\* part_005, first revision: the browser is closed in a finally block
scrapeProfiles_p5a(token, platform, limit, w, id0) ==
  IF ~w.launch THEN Scraped(Err("launch"), 0, 0, <<>>)
  ELSE IF ~w.setup THEN Scraped(Err("page"), 1, 1, <<>>)
  ELSE
    CASE platform = "github" ->
           FinishGitHub(scrapeGitHubProfiles("p5a", token, w.page, w.o1, w.o2,
                                             limit, id0), TRUE)
      [] platform = "twitter" ->
           Finish(Ok(scrapeTwitterProfiles_p5(w.tw, limit, id0)), <<>>, TRUE)
      [] platform = "linkedin" -> Finish(Ok(scrapeLinkedInProfiles_p5), <<>>, TRUE)
      [] OTHER -> Finish(Ok(<<>>), <<>>, TRUE)

\* profiles.push(...userProfiles) behind the repository contributors
PushUserProfiles(repoProfiles, gh) ==
  Finish(IF gh.res.ok THEN Ok(repoProfiles \o gh.res.val) ELSE gh.res, gh.api, TRUE)

\* part_005, second revision, GitHub: the user search fills the slots the
\* repository contributors left
FillRemaining(token, repoProfiles, limit, w, id0) ==
  IF limit - Len(repoProfiles) > 0
  THEN PushUserProfiles(repoProfiles,
         scrapeGitHubProfiles("p5b", token, w.page, w.o1, w.o2,
                              limit - Len(repoProfiles), id0 + Len(repoProfiles)))
  ELSE Finish(Ok(repoProfiles), <<>>, TRUE)

\* part_005, second revision: repository contributors first, the user search
\* for the remaining slots
scrapeProfiles_p5b(token, platform, limit, w, id0) ==
  IF ~w.launch THEN Scraped(Err("launch"), 0, 0, <<>>)
  ELSE IF ~w.setup THEN Scraped(Err("page"), 1, 1, <<>>)
  ELSE
    CASE platform = "github" ->
           FillRemaining(token, scrapeGitHubFromRepos(token, w.repos, limit \div 2, id0),
                         limit, w, id0)
      [] platform = "twitter" ->
           Finish(Ok(scrapeTwitterProfiles_p5(w.tw, limit, id0)), <<>>, TRUE)
      [] platform = "linkedin" -> Finish(Ok(scrapeLinkedInProfiles_p5), <<>>, TRUE)
      [] OTHER -> Finish(Ok(<<>>), <<>>, TRUE)

scrapeProfiles(v, token, platform, limit, w, id0) ==
  CASE v = "route" -> scrapeProfiles_route(platform, limit, w, id0)
    [] v = "p5a"   -> scrapeProfiles_p5a(token, platform, limit, w, id0)
    [] OTHER       -> scrapeProfiles_p5b(token, platform, limit, w, id0)

\* test-scrape-only/route.ts: an API probe inside a browser session that a
\* finally block closes; out: the answer of the platform's API
testScrapeOnly(token, platform, limit, launch, setup, out) ==
  IF ~launch THEN Scraped(Err("launch"), 0, 0, <<>>)
  ELSE IF ~setup THEN Scraped(Err("page"), 1, 1, <<>>)
  ELSE IF platform \notin {"github", "twitter"} THEN Scraped(Ok(<<>>), 1, 1, <<>>)
  ELSE IF ~token THEN Scraped(Err("token not found"), 1, 1, <<>>)
  ELSE IF out.kind # "ok" THEN Scraped(Err("API error"), 1, 1, <<out>>)
  ELSE Scraped(Ok([i \in 1..Min(limit, Len(out.items)) |->
                    [name |-> IF platform = "github" THEN Account[out.items[i]].login
                              ELSE Account[out.items[i]].name,
                     platform |-> platform]]),
               1, 1, <<out>>)

\* ------------------------------------------------------------- enrichment
\* the free-text query of a request
Query == <<"a","i">>

\* what one call of the language model brings back:
\*   throw  the request fails or is answered with a non-OK status
\*   empty  the completion has no content
\*   text   the content is not JSON
\*   json   the content parses to an object with these three fields
AiThrows    == [kind |-> "throw", fitSummary |-> JUndefined, score |-> JUndefined,
                tags |-> JUndefined]
AiNoContent == [kind |-> "empty", fitSummary |-> JUndefined, score |-> JUndefined,
                tags |-> JUndefined]
AiNoJson    == [kind |-> "text", fitSummary |-> JUndefined, score |-> JUndefined,
                tags |-> JUndefined]
Payload(fs, sc, tg) == [kind |-> "json", fitSummary |-> fs, score |-> sc, tags |-> tg]

\* `Profile matches ${query} criteria`
DefaultSummary(query) == JStr(<<"Profile matches ">> \o query \o <<" criteria">>)

\* Number.prototype.toString for a number held in hundredths
RECURSIVE DigitsOf(_)
DigitsOf(k) ==
  LET d == <<"0","1","2","3","4","5","6","7","8","9">>
  IN IF k < 10 THEN <<d[k + 1]>> ELSE DigitsOf(k \div 10) \o <<d[(k % 10) + 1]>>

NumberToString(n) ==
  LET abs == IF n < 0 THEN 0 - n ELSE n
      whole == DigitsOf(abs \div 100)
      frac == abs % 100
      fracDigits == IF frac = 0 THEN <<>>
                    ELSE IF frac % 10 = 0 THEN <<".">> \o DigitsOf(frac \div 10)
                    ELSE <<".">> \o DigitsOf(frac \div 10) \o DigitsOf(frac % 10)
  IN (IF n < 0 THEN <<"-">> ELSE <<>>) \o whole \o fracDigits

\* String(tag) for the values a JSON array of scalars holds
StringOf(v) ==
  CASE v.t = "string" -> v
    [] v.t = "number" -> JStr(NumberToString(v.n))
    [] OTHER          -> JStr(<<v.t>>)

\* route.ts: never throws; every failure is the default analysis, every field
\* of a parsed answer is taken or defaulted on its own
analyzeProfileWithGroq_route(query, profile, groqKey, out) ==
  LET fallback == [fitSummary |-> DefaultSummary(query), score |-> JNum(70),
                   tags |-> OrElse(JArr(profile.tags), JArr(<<>>))]
  IN IF ~groqKey \/ out.kind # "json" THEN fallback
     ELSE [fitSummary |-> OrElse(out.fitSummary, DefaultSummary(query)),
           score |-> OrElse(out.score, JNum(70)),
           tags |-> OrElse(out.tags, OrElse(JArr(profile.tags), JArr(<<>>)))]

\* part_005: throws unless the answer has the three fields with their types
analyzeProfileWithGroq_p5(query, profile, groqKey, out) ==
  LET result == IF out.kind = "empty" THEN Payload(JUndefined, JUndefined, JUndefined)
                ELSE out
  IN IF ~groqKey THEN Err("GROQ_API_KEY is not set")
     ELSE IF out.kind = "throw" THEN Err("request failed")
     ELSE IF out.kind = "text" THEN Err("Unexpected token")
     ELSE IF /\ result.fitSummary.t = "string"
             /\ result.score.t = "number"
             /\ result.tags.t = "array"
          THEN Ok([fitSummary |-> result.fitSummary,
                   score |-> JNum(Max(0, Min(100, result.score.n))),
                   tags |-> JArr([i \in 1..Len(result.tags.a) |->
                                    StringOf(result.tags.a[i])])])
          ELSE Err("Invalid JSON structure from AI analysis")

\* the try block of the loop of route.ts: spreading tags that are not
\* iterable throws, and the catch keeps the profile as it was
Push_route(profile, analysis) ==
  IF Iterable(analysis.tags)
  THEN <<[profile EXCEPT !.fit_summary = analysis.fitSummary,
                         !.score = analysis.score,
                         !.tags = SetOrder(profile.tags \o Spread(analysis.tags))]>>
  ELSE <<profile>>

\* one turn of the loop of route.ts
AnalyzeOne_route(query, profile, out) ==
  Push_route(profile, analyzeProfileWithGroq_route(query, profile, TRUE, out))

\* a variant whose catch block drops the profile
Push_dropping(profile, r) ==
  IF r.ok
  THEN <<[profile EXCEPT !.fit_summary = r.val.fitSummary,
                         !.score = r.val.score,
                         !.tags = SetOrder(profile.tags \o Spread(r.val.tags))]>>
  ELSE <<>>

\* the try and the catch block of the loop of part_005
Push_p5(profile, r) ==
  IF r.ok
  THEN <<[profile EXCEPT !.fit_summary = r.val.fitSummary,
                         !.score = r.val.score,
                         !.tags = SetOrder(profile.tags \o Spread(r.val.tags))]>>
  ELSE <<[profile EXCEPT !.fit_summary = JStr(<<"Could not analyze profile.">>),
                         !.score = JNum(50)]>>

\* one turn of the loop of part_005
AnalyzeOne_p5(query, profile, groqKey, out) ==
  Push_p5(profile, analyzeProfileWithGroq_p5(query, profile, groqKey, out))

\* what one turn of the loop appends to analyzedProfiles
AnalyzeOne(v, query, profile, groqKey, out) ==
  IF v = "route" THEN AnalyzeOne_route(query, profile, out)
  ELSE AnalyzeOne_p5(query, profile, groqKey, out)

\* analyzeProfilesWithAI; outs[i]: the model's answer for profiles[i]
analyzeProfilesWithAI(v, query, profiles, groqKey, outs) ==
  LET RECURSIVE Loop(_, _)
      Loop(i, analyzedProfiles) ==
        IF i > Len(profiles) THEN analyzedProfiles
        ELSE Loop(i + 1, analyzedProfiles
                         \o AnalyzeOne(v, query, profiles[i], groqKey, outs[i]))
  IN IF v = "route" /\ ~groqKey THEN profiles ELSE Loop(1, <<>>)

\* whether analyzeProfilesWithAI calls the model at all
CallsModel(v, groqKey) == groqKey

\* ------------------------------------------------------------ persistence
\* upsert on the primary key
UpsertById(rows, row) ==
  IF \E i \in 1..Len(rows) : rows[i].id = row.id
  THEN [i \in 1..Len(rows) |-> IF rows[i].id = row.id THEN row ELSE rows[i]]
  ELSE Append(rows, row)

\* upsert with onConflict: 'name,platform'
UpsertByKey(rows, row) ==
  IF \E i \in 1..Len(rows) : rows[i].name = row.name /\ rows[i].platform = row.platform
  THEN [i \in 1..Len(rows) |->
          IF rows[i].name = row.name /\ rows[i].platform = row.platform
          THEN row ELSE rows[i]]
  ELSE Append(rows, row)

\* route.ts: one upsert per profile; oks[i]: whether the store accepts row i
saveProfilesToDatabase_route(rows, profiles, oks) ==
  LET RECURSIVE Loop(_, _)
      Loop(i, acc) ==
        IF i > Len(profiles) THEN acc
        ELSE Loop(i + 1, IF oks[i] THEN UpsertById(acc, profiles[i]) ELSE acc)
  IN Loop(1, rows)

\* part_005: one batch upsert; ok: whether the store accepts the batch
saveProfilesToDatabase_p5a(rows, profiles, ok) ==
  LET RECURSIVE Loop(_, _)
      Loop(i, acc) ==
        IF i > Len(profiles) THEN acc ELSE Loop(i + 1, UpsertByKey(acc, profiles[i]))
  IN IF profiles = <<>> \/ ~ok THEN rows ELSE Loop(1, rows)

\* --------------------------------------------------------- generate-leads
\* `limit = 10` of the request destructuring
DefaultLimit == 10

\* below this many stored leads the live acquisition is triggered
EnoughLeads == 5

\* limits a request may carry
Limits == (1..MaxLimit) \cup {DefaultLimit}

\* a lead as the store or the acquisition endpoint hands it out
Lead(id, name, platform, score) ==
  [id |-> id, name |-> name, platform |-> platform, score |-> score]

\* leads the store may hold: two of them share a natural key
StoredLeads ==
  { Lead(1, "Ann", "github", 90), Lead(2, "Ann", "github", 50),
    Lead(3, "Bob", "github", 70) }

\* leads a live acquisition may bring: one collides with a stored lead, two
\* with each other
FreshLeads ==
  { Lead(4, "Ann", "github", 60), Lead(5, "Eve", "github", 95),
    Lead(6, "Eve", "github", 80), Lead(7, "Ann", "twitter", 75) }

ScoreOf == [l \in StoredLeads \cup FreshLeads |-> l.score]

IsSortedDesc(s) == \A i \in 1..(Len(s) - 1) : s[i].score >= s[i + 1].score

\* what the store answers to `.order('score', desc).limit(limit)`
DbOutcomes(limit) ==
  {Throws, Status(500)} \cup
  { Found(l) : l \in { s \in DistinctSeqsUpTo(StoredLeads, Min(limit, MaxLeads)) :
                         IsSortedDesc(s) } }

\* what the on-demand-scrape endpoint answers: a network error, an error
\* status, the empty-result body (profiles: []), or at most `limit` profiles
ScrapeOutcomes(limit) ==
  {Throws, Status(500)} \cup
  { Found(l) : l \in DistinctSeqsUpTo(FreshLeads, Min(limit, MaxLeads)) }

\* never throws: every failure is an empty list
triggerOnDemandScraping(out) ==
  IF out.kind = "ok" THEN out.items ELSE <<>>

\* allLeads.filter((lead, index, self) => index === self.findIndex(same key))
Dedup(allLeads) ==
  LET findIndex(lead) ==
        CHOOSE i \in 1..Len(allLeads) :
          /\ allLeads[i].name = lead.name /\ allLeads[i].platform = lead.platform
          /\ \A j \in 1..(i - 1) :
               ~(allLeads[j].name = lead.name /\ allLeads[j].platform = lead.platform)
      RECURSIVE Loop(_)
      Loop(index) ==
        IF index > Len(allLeads) THEN <<>>
        ELSE (IF index = findIndex(allLeads[index]) THEN <<allLeads[index]>> ELSE <<>>)
             \o Loop(index + 1)
  IN Loop(1)

\* a response of a route handler
Response(status, body, list, source) ==
  [status |-> status, body |-> body, list |-> list, source |-> source]

NoResponse == Response(0, "none", <<>>, "none")

\* whether generate-leads/route.ts asks for a live acquisition
NeedsScraping(limit, dbOut) ==
  LET databaseLeads == IF dbOut.kind = "ok" THEN dbOut.items ELSE <<>>
  IN Len(databaseLeads) < Min(limit, EnoughLeads)

\* a variant that labels the response "database" whenever the lookup answered
generateLeads_mislabelled(limit, dbOut, scrapeOut) ==
  Response(200, "leads",
           Take(SortDesc(Dedup((IF dbOut.kind = "ok" THEN dbOut.items ELSE <<>>)
                               \o (IF Len(IF dbOut.kind = "ok" THEN dbOut.items ELSE <<>>)
                                        < Min(limit, EnoughLeads)
                                   THEN triggerOnDemandScraping(scrapeOut) ELSE <<>>)),
                         ScoreOf), limit),
           IF dbOut.kind = "ok" THEN "database" ELSE "scraped")

\* a variant in which a failed source ends the request with an error
generateLeads_abort(limit, dbOut, scrapeOut) ==
  IF dbOut.kind # "ok" \/ scrapeOut.kind \in {"throw", "status"}
  THEN Response(500, "error", <<>>, "none")
  ELSE Response(200, "leads",
                Take(SortDesc(Dedup(dbOut.items \o triggerOnDemandScraping(scrapeOut)),
                              ScoreOf), limit),
                IF Len(dbOut.items) > 0 THEN "database" ELSE "scraped")

\* generate-leads/route.ts POST after validation
generateLeads_route(limit, dbOut, scrapeOut) ==
  LET databaseLeads == IF dbOut.kind = "ok" THEN dbOut.items ELSE <<>>
      scrapedLeads == IF Len(databaseLeads) < Min(limit, EnoughLeads)
                      THEN triggerOnDemandScraping(scrapeOut) ELSE <<>>
      allLeads == databaseLeads \o scrapedLeads
      uniqueLeads == Dedup(allLeads)
      sortedLeads == Take(SortDesc(uniqueLeads, ScoreOf), limit)
      source == IF Len(databaseLeads) > 0 THEN "database" ELSE "scraped"
  IN Response(200, "leads", sortedLeads, source)

\* part_008 POST after validation
generateLeads_p8(limit, scrapeOut) ==
  Response(200, "leads", triggerOnDemandScraping(scrapeOut), "scraped")

\* -------------------------------------------------------- scheduled scrape
ScheduledPlatforms == <<"GitHub", "Twitter", "Substack">>

\* what one trending scraper does: it throws (no page can be opened) or it
\* returns what it collected before any error inside it
TrendingOutcomes ==
  {Throws} \cup { Found(l) : l \in DistinctSeqsUpTo({"ann", "bob"}, MaxItems) }

\* the run of ProfileScraper.runScheduledScrape; outs[i]: what the scraper of
\* platform i does; saveOk: whether the store accepts the batch
Run(launched, closed, attempted, collected, threw) ==
  [launched |-> launched, closed |-> closed, attempted |-> attempted,
   collected |-> collected, threw |-> threw]

runScheduledScrape(launch, outs, saveOk) ==
  LET RECURSIVE Loop(_, _, _)
      Loop(i, attempted, allProfiles) ==
        IF i > Len(ScheduledPlatforms) THEN <<attempted, allProfiles>>
        ELSE Loop(i + 1, Append(attempted, ScheduledPlatforms[i]),
                  IF outs[i].kind = "ok"
                  THEN allProfiles \o [k \in 1..Len(outs[i].items) |->
                         [name |-> outs[i].items[k], platform |-> ScheduledPlatforms[i]]]
                  ELSE allProfiles)
      Finished(done) == Run(1, 1, done[1], done[2], Len(done[2]) > 0 /\ ~saveOk)
  IN IF ~launch THEN Run(0, 0, <<>>, <<>>, TRUE)
     ELSE Finished(Loop(1, <<>>, <<>>))

\* ------------------------------------------------- on-demand-scrape POST
\* `errorMessage.includes('GitHub API Unauthorized') || errorMessage.includes('Unauthorized')`
IsGitHubAuthError(errorMessage) == errorMessage = "GitHub API Unauthorized"

\* a variant without the `profiles.length === 0` branch
ScrapeResponse_unchecked(v, res) ==
  IF ~res.ok
  THEN IF v = "p5b" /\ IsGitHubAuthError(res.err)
       THEN Response(401, "authError", <<>>, "none")
       ELSE Response(500, "error", <<>>, "none")
  ELSE NoResponse

\* what POST answers right after scrapeProfiles; NoResponse: it goes on to the
\* enrichment
ScrapeResponse(v, res) ==
  IF ~res.ok
  THEN IF v = "p5b" /\ IsGitHubAuthError(res.err)
       THEN Response(401, "authError", <<>>, "none")
       ELSE Response(500, "error", <<>>, "none")
  ELSE IF Len(res.val) = 0 THEN Response(200, "empty", <<>>, "none")
  ELSE NoResponse

\* -------------------------------------------------------- parseGitHubQuery
\* String.prototype.trim
RECURSIVE TrimStart(_)
TrimStart(text) ==
  IF text # <<>> /\ IsSpace(Head(text)) THEN TrimStart(Tail(text)) ELSE text

RECURSIVE TrimEnd(_)
TrimEnd(text) ==
  IF text # <<>> /\ IsSpace(text[Len(text)])
  THEN TrimEnd(SubSeq(text, 1, Len(text) - 1)) ELSE text

Trim(text) == TrimEnd(TrimStart(text))

\* Array.prototype.join(' ')
RECURSIVE Join(_)
Join(words) ==
  IF words = <<>> THEN <<>>
  ELSE IF Len(words) = 1 THEN words[1]
  ELSE words[1] \o <<" ">> \o Join(Tail(words))

\* the keywords of a list the text contains, in list order
Detected(text, keywords) ==
  LET RECURSIVE Collect(_)
      Collect(i) ==
        IF i > Len(keywords) THEN <<>>
        ELSE (IF Includes(text, keywords[i]) THEN <<keywords[i]>> ELSE <<>>)
             \o Collect(i + 1)
  IN Collect(1)

\* keywords.some(k => text.includes(k))
Some(text, keywords) == \E i \in 1..Len(keywords) : Includes(text, keywords[i])

\* on-demand-scrape/route.ts
roles ==
  << <<"d","e","s","i","g","n","e","r">>, <<"d","e","v","e","l","o","p","e","r">>,
    <<"e","n","g","i","n","e","e","r">>, <<"m","a","n","a","g","e","r">>,
    <<"l","e","a","d">>, <<"a","r","c","h","i","t","e","c","t">>,
    <<"a","r","t","i","s","t">>, <<"w","r","i","t","e","r">>,
    <<"f","o","u","n","d","e","r">>, <<"m","a","k","e","r">>,
    <<"b","u","i","l","d","e","r">>, <<"h","a","c","k","e","r">>, <<"c","o","d","e","r">>,
    <<"p","r","o","g","r","a","m","m","e","r">>, <<"c","o","n","s","u","l","t","a","n","t">>,
    <<"s","p","e","c","i","a","l","i","s","t">>, <<"e","x","p","e","r","t">>,
    <<"p","r","o","f","e","s","s","i","o","n","a","l">>, <<"f","r","o","n","t","e","n","d">>,
    <<"b","a","c","k","e","n","d">>, <<"f","u","l","l","s","t","a","c","k">>, <<"u","i">>,
    <<"u","x">>, <<"p","r","o","d","u","c","t">>, <<"d","a","t","a">>,
    <<"d","e","v","o","p","s">>, <<"m","o","b","i","l","e">>, <<"w","e","b">>,
    <<"s","o","f","t","w","a","r","e">>, <<"s","y","s","t","e","m","s">>,
    <<"c","l","o","u","d">>, <<"a","i">>, <<"m","l">>,
    <<"m","a","c","h","i","n","e"," ","l","e","a","r","n","i","n","g">>,
    <<"d","a","t","a"," ","s","c","i","e","n","c","e">>, <<"a","n","a","l","y","s","t">>,
    <<"s","c","i","e","n","t","i","s","t">> >>

activityKeywords ==
  << <<"a","c","t","i","v","e">>, <<"a","c","t","i","v","i","t","y">>,
    <<"r","e","c","e","n","t">>, <<"c","o","m","m","i","t">>,
    <<"c","o","n","t","r","i","b","u","t","o","r">>, <<"r","e","p","o","s">>,
    <<"r","e","p","o","s","i","t","o","r","y">>,
    <<"c","o","n","t","r","i","b","u","t","i","o","n","s">>, <<"p","o","s","t","s">>,
    <<"t","w","e","e","t","s">>, <<"u","p","d","a","t","e","s">>,
    <<"l","a","t","e","s","t">>, <<"o","n","g","o","i","n","g">>,
    <<"c","u","r","r","e","n","t">>, <<"r","e","c","e","n","t","l","y">>,
    <<"f","r","e","q","u","e","n","t","l","y">>, <<"r","e","g","u","l","a","r">> >>

experienceKeywords ==
  << <<"s","e","n","i","o","r">>, <<"j","u","n","i","o","r">>, <<"m","i","d">>,
    <<"e","x","p","e","r","i","e","n","c","e","d">>, <<"e","x","p","e","r","t">>,
    <<"b","e","g","i","n","n","e","r">>, <<"a","d","v","a","n","c","e","d">>,
    <<"i","n","t","e","r","m","e","d","i","a","t","e">>, <<"v","e","t","e","r","a","n">>,
    <<"s","e","a","s","o","n","e","d">>, <<"n","e","w">>, <<"f","r","e","s","h">> >>

\* the words the fallback of route.ts leaves out of the search query
fillerWords ==
  << <<"w","i","t","h">>, <<"w","h","o">>, <<"t","h","a","t">>, <<"h","a","v","e">>,
    <<"h","a","s">>, <<"a","r","e">>, <<"i","s">>, <<"t","h","e">>, <<"a">>, <<"a","n">>,
    <<"a","n","d">>, <<"o","r">>, <<"b","u","t">>, <<"i","n">>, <<"o","n">>, <<"a","t">>,
    <<"t","o">>, <<"f","o","r">>, <<"o","f">>, <<"b","y">>, <<"g","i","t","h","u","b">>,
    <<"g","i","t">> >>

\* experienceKeywords.find(keyword => queryLower.includes(keyword)) || ''
ExperienceLevel(queryLower) ==
  LET found == Detected(queryLower, experienceKeywords)
  IN IF found = <<>> THEN <<>> ELSE found[1]

\* words longer than 2 characters that are no filler word
MeaningfulWords(words) ==
  Filter(words, { w \in Range(words) : Len(w) > 2 /\ w \notin Range(fillerWords) })

\* the search query of route.ts before the fallback
SearchQuery_route(prompt, detectedKeywords) ==
  IF Len(detectedKeywords) > 0 THEN Join(detectedKeywords)
  ELSE Join(MeaningfulWords(SplitWs(ToLowerCase(prompt), 1, <<>>, FALSE)))

\* the filters of route.ts
Filters_route(searchQuery, hasActivity, experienceLevel) ==
  (IF hasActivity THEN << <<"repos:>1">>, <<"followers:>10">> >> ELSE <<>>)
  \o (IF experienceLevel \in {<<"s","e","n","i","o","r">>,
                             <<"e","x","p","e","r","i","e","n","c","e","d">>,
                             <<"e","x","p","e","r","t">>}
      THEN << <<"repos:>5">>, <<"followers:>50">> >> ELSE <<>>)
  \o (IF searchQuery # <<>> THEN << <<"in:bio ">> \o searchQuery >> ELSE <<>>)

\* what parseGitHubQuery returns
Parsed(searchQuery, filters, sortBy) ==
  [searchQuery |-> searchQuery, filters |-> filters, sortBy |-> sortBy]

\* the end of parseGitHubQuery of route.ts: the fallback term and the filters
WithFallback(searchQuery, hasActivity, experienceLevel) ==
  Parsed(IF Trim(searchQuery) = <<>> THEN <<"d","e","v","e","l","o","p","e","r">> ELSE searchQuery,
         Filters_route(IF Trim(searchQuery) = <<>> THEN <<"d","e","v","e","l","o","p","e","r">>
                       ELSE searchQuery,
                       hasActivity, experienceLevel),
         IF hasActivity THEN "repositories" ELSE "followers")

parseGitHubQuery_route(prompt) ==
  WithFallback(
    SearchQuery_route(prompt,
      Detected(ToLowerCase(prompt), roles)
        \o (IF ExperienceLevel(ToLowerCase(prompt)) # <<>>
            THEN <<ExperienceLevel(ToLowerCase(prompt))>> ELSE <<>>)),
    Some(ToLowerCase(prompt), activityKeywords),
    ExperienceLevel(ToLowerCase(prompt)))

\* part_005
roleKeywords ==
  << <<"s","o","f","t","w","a","r","e"," ","e","n","g","i","n","e","e","r">>,
    <<"d","e","v","e","l","o","p","e","r">>, <<"d","e","s","i","g","n","e","r">>,
    <<"d","a","t","a"," ","s","c","i","e","n","t","i","s","t">>,
    <<"p","r","o","d","u","c","t"," ","m","a","n","a","g","e","r">>,
    <<"f","o","u","n","d","e","r">> >>

techKeywords_p5 ==
  << <<"r","e","a","c","t">>, <<"p","y","t","h","o","n">>,
    <<"t","y","p","e","s","c","r","i","p","t">>, <<"n","o","d","e",".","j","s">>,
    <<"a","i">>, <<"m","a","c","h","i","n","e"," ","l","e","a","r","n","i","n","g">>,
    <<"d","e","v","o","p","s">> >>

\* activityKeywords of part_005, by sort key
activityKeywords_p5 ==
  << [sortKey |-> "followers", keywords |-> << <<"p","o","p","u","l","a","r">>, <<"w","e","l","l","-","k","n","o","w","n">>,
                              <<"i","n","f","l","u","e","n","t","i","a","l">> >>],
     [sortKey |-> "repositories",
      keywords |-> << <<"p","r","o","l","i","f","i","c">>,
                              <<"a","c","t","i","v","e"," ","d","e","v","e","l","o","p","e","r">>,
                              <<"m","a","n","y"," ","p","r","o","j","e","c","t","s">>,
                              <<"m","a","n","y"," ","r","e","p","o","s">> >>],
     [sortKey |-> "joined",
      keywords |-> << <<"n","e","w"," ","u","s","e","r">>,
                              <<"r","e","c","e","n","t","l","y"," ","j","o","i","n","e","d">>,
                              <<"n","e","w"," ","t","o"," ","g","i","t","h","u","b">> >>] >>

sortOptions == <<"followers", "repositories", "joined">>

\* a sort key drawn at random whatever the query names
SortBy_random(query, random) == sortOptions[random + 1]

\* the sort key of part_005: the first activity the query names, a random
\* one (random: the index Math.random picks) when it names none
SortBy_p5(query, random) ==
  LET named == { i \in 1..Len(activityKeywords_p5) :
                   Some(query, activityKeywords_p5[i].keywords) }
  IN IF named = {} THEN sortOptions[random + 1]
     ELSE activityKeywords_p5[CHOOSE i \in named : \A j \in named : i <= j].sortKey

\* the filters of part_005: one per detected keyword, or the prompt as it is
Filters_p5(prompt, detectedKeywords) ==
  IF Len(detectedKeywords) > 0
  THEN [i \in 1..Len(detectedKeywords) |-> <<"in:bio ">> \o detectedKeywords[i]]
  ELSE << <<"in:bio ">> \o prompt >>

parseGitHubQuery_p5(prompt, random) ==
  Parsed(IF Join(Detected(ToLowerCase(prompt), roleKeywords \o techKeywords_p5)) # <<>>
         THEN Join(Detected(ToLowerCase(prompt), roleKeywords \o techKeywords_p5))
         ELSE prompt,
         Filters_p5(prompt, Detected(ToLowerCase(prompt), roleKeywords \o techKeywords_p5)),
         SortBy_p5(ToLowerCase(prompt), random))

\* prompts that name an activity of part_005
ActivityPrompts ==
  { <<"m","a","n","y"," ","r","e","p","o","s">>,
    <<"P","r","o","l","i","f","i","c"," ","a","n","d"," ","p","o","p","u","l","a","r">> }

\* prompts a request may carry
Prompts ==
  { <<>>,
    <<"t","h","e"," ","a"," ","i","s">>,
    <<"T","h","e"," ","A"," ","I","s">>,
    <<" ","t","o"," ","b","e"," ">>,
    <<"r","u","s","t"," ","f","a","n","s">>,
    <<"r","e","a","c","t"," ","d","e","v","e","l","o","p","e","r">>,
    <<"s","e","n","i","o","r"," ","a","i">>,
    <<"a","c","t","i","v","e"," ","c","o","d","e","r">>,
    <<"p","o","p","u","l","a","r"," ","p","y","t","h","o","n">>,
    <<"n","e","w"," ","u","s","e","r">> }

\* ------------------------------------------ extractTags of the scheduled scraper
commonTags ==
  << <<"j","a","v","a","s","c","r","i","p","t">>, <<"t","y","p","e","s","c","r","i","p","t">>,
    <<"r","e","a","c","t">>, <<"n","o","d","e">>, <<"p","y","t","h","o","n">>, <<"a","i">>,
    <<"m","l">>, <<"s","t","a","r","t","u","p">>, <<"t","e","c","h">>,
    <<"d","e","v","e","l","o","p","e","r">>,
    <<"e","n","t","r","e","p","r","e","n","e","u","r">>, <<"w","r","i","t","e","r">>,
    <<"d","e","s","i","g","n","e","r">>, <<"p","r","o","d","u","c","t">>,
    <<"m","a","r","k","e","t","i","n","g">>, <<"g","r","o","w","t","h">>,
    <<"s","a","a","s">>, <<"o","p","e","n"," ","s","o","u","r","c","e">>,
    <<"b","l","o","c","k","c","h","a","i","n">>, <<"w","e","b","3">>, <<"d","a","t","a">>,
    <<"a","n","a","l","y","t","i","c","s">>, <<"m","o","b","i","l","e">>, <<"i","o","s">>,
    <<"a","n","d","r","o","i","d">>, <<"f","u","l","l","s","t","a","c","k">>,
    <<"f","r","o","n","t","e","n","d">>, <<"b","a","c","k","e","n","d">>,
    <<"d","e","v","o","p","s">>, <<"c","l","o","u","d">>, <<"a","w","s">>, <<"g","c","p">>,
    <<"a","z","u","r","e">>, <<"f","i","n","t","e","c","h">>,
    <<"h","e","a","l","t","h","t","e","c","h">>, <<"e","d","t","e","c","h">>,
    <<"e","c","o","m","m","e","r","c","e">>, <<"s","o","c","i","a","l">>,
    <<"m","e","d","i","a">>, <<"c","o","n","t","e","n","t">>,
    <<"c","r","e","a","t","o","r">>, <<"i","n","f","l","u","e","n","c","e","r">>,
    <<"c","o","n","s","u","l","t","a","n","t">>, <<"f","r","e","e","l","a","n","c","e","r">> >>

\* part_002: every common tag the text contains
extractTags_p2(text) == Detected(ToLowerCase(text), commonTags)

\* texts a profile's bio and names may bring
Texts ==
  { <<>>,
    <<"r","e","a","c","t"," ","a","i">>,
    <<"G","o"," ","g","o"," ","A","I">>,
    <<"j","a","v","a","s","c","r","i","p","t"," ","t","y","p","e","s","c","r","i","p","t"," ","r","e","a","c","t"," ","n","o","d","e"," ","p","y","t","h","o","n"," ","a","i"," ","m","l"," ","g","o"," ","r","u","s","t"," ","c","l","o","u","d"," ","s","t","a","r","t","u","p"," ","t","e","c","h"," ","d","e","v","e","l","o","p","e","r">> ,
    <<"t","h","e"," ","g","o"," ","4","2"," ","x"," ","g","o"," ","a","i"," ","a","i"," ","r","u","s","t"," ","c","+","+"," ","r","u","s","t"," ","a","i">>,
    <<"c","o","n","s","t","r","u","c","t","o","r"," ","g","o"," ","g","o">> }

\* ------------------------------------------------------- the profile matcher
\* the table of common variations of isTagMatch
variations ==
  << [key |-> <<"a","i">>,
      values |-> << <<"a","r","t","i","f","i","c","i","a","l"," ","i","n","t","e","l","l","i","g","e","n","c","e">>,
                  <<"m","a","c","h","i","n","e"," ","l","e","a","r","n","i","n","g">>,
                  <<"m","l">> >>],
     [key |-> <<"m","l">>,
      values |-> << <<"m","a","c","h","i","n","e"," ","l","e","a","r","n","i","n","g">>,
                  <<"a","r","t","i","f","i","c","i","a","l"," ","i","n","t","e","l","l","i","g","e","n","c","e">>,
                  <<"a","i">> >>],
     [key |-> <<"s","a","a","s">>,
      values |-> << <<"s","o","f","t","w","a","r","e"," ","a","s"," ","a"," ","s","e","r","v","i","c","e">>,
                  <<"s","u","b","s","c","r","i","p","t","i","o","n">> >>],
     [key |-> <<"s","t","a","r","t","u","p">>,
      values |-> << <<"s","t","a","r","t","u","p">>,
                  <<"s","t","a","r","t","-","u","p">>,
                  <<"c","o","m","p","a","n","y">> >>],
     [key |-> <<"d","e","v","e","l","o","p","e","r">>,
      values |-> << <<"d","e","v">>,
                  <<"p","r","o","g","r","a","m","m","e","r">>,
                  <<"c","o","d","e","r">> >>],
     [key |-> <<"e","n","t","r","e","p","r","e","n","e","u","r">>,
      values |-> << <<"f","o","u","n","d","e","r">>,
                  <<"c","e","o">>,
                  <<"b","u","s","i","n","e","s","s"," ","o","w","n","e","r">> >>] >>

\* a variant that looks a tag up in the table in one direction only
isTagMatch_oneWay(tag1, tag2) ==
  IF tag1 = tag2 THEN TRUE
  ELSE IF Includes(tag1, tag2) \/ Includes(tag2, tag1) THEN TRUE
  ELSE \E i \in 1..Len(variations) :
         tag1 = variations[i].key /\ tag2 \in Range(variations[i].values)

\* ProfileMatcher.isTagMatch
isTagMatch(tag1, tag2) ==
  IF tag1 = tag2 THEN TRUE
  ELSE IF Includes(tag1, tag2) \/ Includes(tag2, tag1) THEN TRUE
  ELSE \E i \in 1..Len(variations) :
         \/ tag1 = variations[i].key /\ tag2 \in Range(variations[i].values)
         \/ tag2 = variations[i].key /\ tag1 \in Range(variations[i].values)

\* tags of a query and of a profile
Tags ==
  { <<>>,
    <<"a","i">>,
    <<"m","l">>,
    <<"m","a","c","h","i","n","e"," ","l","e","a","r","n","i","n","g">>,
    <<"r","e","a","c","t">>,
    <<"v","u","e">>,
    <<"r","e","a","c","t","j","s">>,
    <<"d","e","v">>,
    <<"d","e","v","e","l","o","p","e","r">>,
    <<"c","o","m","p","a","n","y">>,
    <<"s","t","a","r","t","u","p">> }

\* a number held as the fraction num/den, den > 0
Ratio(num, den) == [num |-> num, den |-> den]

\* the dimension of the fallback embedding
EmbeddingDim == 1536

\* getEmbedding; out: what the embedding service answers
getEmbedding(out) ==
  IF out.kind = "ok" THEN out.items ELSE [i \in 1..EmbeddingDim |-> 0]

\* the sum of vec1[i] * vec2[i] for i from lo to hi (summed by halves, which
\* keeps the evaluation shallow)
RECURSIVE DotProduct(_, _, _, _)
DotProduct(vec1, vec2, lo, hi) ==
  IF lo > hi THEN 0
  ELSE IF lo = hi THEN vec1[lo] * vec2[lo]
  ELSE DotProduct(vec1, vec2, lo, (lo + hi) \div 2)
       + DotProduct(vec1, vec2, ((lo + hi) \div 2) + 1, hi)

\* norm1 * norm1 of the loop
SquaredNorm(vec) == DotProduct(vec, vec, 1, Len(vec))

\* Math.sqrt, for the squares of whole numbers
Sqrt(n) == CHOOSE r \in 0..n : r * r = n

\* calculateCosineSimilarity
calculateCosineSimilarity(vec1, vec2) ==
  IF Len(vec1) # Len(vec2) THEN Ratio(0, 1)
  ELSE IF Sqrt(SquaredNorm(vec1)) = 0 \/ Sqrt(SquaredNorm(vec2)) = 0
  THEN Ratio(0, 1)
  ELSE Ratio(DotProduct(vec1, vec2, 1, Len(vec1)),
             Sqrt(SquaredNorm(vec1)) * Sqrt(SquaredNorm(vec2)))

\* ProfileMatcher.extractTags: the common tags the text contains
extractTags_matcher(text) == Detected(ToLowerCase(text), commonTags)

\* calculateTagMatch: the matching pairs over the longer of the two tag lists
calculateTagMatch(companyTags, profileTags) ==
  IF Len(profileTags) > 0
  THEN Ratio(Cardinality({ p \in (1..Len(companyTags)) \X (1..Len(profileTags)) :
                             isTagMatch(companyTags[p[1]], profileTags[p[2]].s) }),
             Max(Len(companyTags), Len(profileTags)))
  ELSE Ratio(0, 1)

\* text.toLowerCase().replace(/[^\w\s]/g, '').split(/\s+/).filter(word => word.length > 2)
tokenize(text) ==
  SelectSeq(SplitWs(SelectSeq(ToLowerCase(text),
                              LAMBDA c : c \in Letters \cup Digits \cup {"_", " "}),
                    1, <<>>, FALSE),
            LAMBDA word : Len(word) > 2)

\* calculateBioSimilarity on the tokens of the two texts
BioSimilarity(companyWords, bioWords) ==
  IF Len(bioWords) > 0
  THEN Ratio(Cardinality({ i \in 1..Len(companyWords) :
                             companyWords[i] \in Range(bioWords)
                               /\ Len(companyWords[i]) > 3 }),
             Max(Len(companyWords), Len(bioWords)))
  ELSE Ratio(0, 1)

calculateBioSimilarity(companyDNA, bio) ==
  IF bio = <<>> THEN Ratio(0, 1) ELSE BioSimilarity(tokenize(companyDNA), tokenize(bio))

techKeywords_m == << <<"t","e","c","h">>, <<"s","o","f","t","w","a","r","e">>, <<"d","e","v","e","l","o","p","e","r">>, <<"p","r","o","g","r","a","m","m","i","n","g">>, <<"c","o","d","e">>, <<"a","i">>, <<"m","l">>, <<"d","a","t","a">> >>
socialKeywords == << <<"s","o","c","i","a","l">>, <<"c","o","m","m","u","n","i","t","y">>, <<"n","e","t","w","o","r","k">>, <<"c","o","n","t","e","n","t">>, <<"c","r","e","a","t","o","r">>, <<"i","n","f","l","u","e","n","c","e","r">> >>
contentKeywords == << <<"c","o","n","t","e","n","t">>, <<"w","r","i","t","e","r">>, <<"a","u","t","h","o","r">>, <<"n","e","w","s","l","e","t","t","e","r">>, <<"b","l","o","g">>, <<"p","u","b","l","i","s","h">> >>
businessKeywords == << <<"b","u","s","i","n","e","s","s">>, <<"s","t","a","r","t","u","p">>, <<"e","n","t","r","e","p","r","e","n","e","u","r">>, <<"f","o","u","n","d","e","r">>, <<"c","e","o">>, <<"c","o","m","p","a","n","y">> >>

\* calculatePlatformRelevance, in tenths
calculatePlatformRelevance(companyDNA, platform) ==
  CASE platform = "github" ->
         IF Some(ToLowerCase(companyDNA), techKeywords_m) THEN 9 ELSE 3
    [] platform = "twitter" ->
         IF Some(ToLowerCase(companyDNA), socialKeywords) THEN 8 ELSE 5
    [] platform = "substack" ->
         IF Some(ToLowerCase(companyDNA), contentKeywords) THEN 8 ELSE 4
    [] platform = "linkedin" ->
         IF Some(ToLowerCase(companyDNA), businessKeywords) THEN 9 ELSE 6
    [] OTHER -> 5

\* calculateRecencyScore, in tenths, of the whole days since last_updated
calculateRecencyScore(daysSinceUpdate) ==
  IF daysSinceUpdate <= 1 THEN 10
  ELSE IF daysSinceUpdate <= 7 THEN 9
  ELSE IF daysSinceUpdate <= 30 THEN 7
  ELSE IF daysSinceUpdate <= 90 THEN 5
  ELSE 3

\* totalScore: 0.3 tag + 0.25 bio + 0.3 vector + 0.1 platform + 0.05 recency
\* + 0.2 profile.score, then Math.min(totalScore, 1.0)
TotalScore(tag, bio, vector, platform, recency, score) ==
  LET scale == tag.den * bio.den * vector.den * score.d
      num == 3000 * tag.num * bio.den * vector.den * score.d
             + 2500 * bio.num * tag.den * vector.den * score.d
             + 3000 * vector.num * tag.den * bio.den * score.d
             + (100 * platform + 50 * recency) * scale
             + 20 * score.n * tag.den * bio.den * vector.den
  IN IF num > 10000 * scale THEN Ratio(1, 1) ELSE Ratio(num, 10000 * scale)

\* calculateMatchScore; given: whether companyEmbedding is passed; profileOut:
\* what the embedding service answers for the bio; the reasons are left out
calculateMatchScore(companyDNA, profile, given, companyEmbedding, profileOut, daysSinceUpdate) ==
  TotalScore(calculateTagMatch(extractTags_matcher(companyDNA), profile.tags),
             calculateBioSimilarity(companyDNA, profile.bio),
             IF given /\ profile.bio # <<>>
             THEN calculateCosineSimilarity(companyEmbedding, getEmbedding(profileOut))
             ELSE Ratio(0, 1),
             calculatePlatformRelevance(companyDNA, profile.platform),
             calculateRecencyScore(daysSinceUpdate),
             profile.score)

\* embeddings the service may answer with
Vectors == { <<0, 0>>, <<1, 0>>, <<0, 1>>, <<3, 4>>, <<-1, 0>>, <<1, 0, 0>> }
EmbeddingOutcomes == {Throws} \cup { Found(vec) : vec \in Vectors }

\* stored profiles: a scored one, one without bio and tags, one that the
\* enrichment of on-demand-scrape/route.ts stored with the score -0.5, and one
\* it stored with the score 1.5, and one without bio whose tags contain one another
MatcherProfiles ==
  { Profile(1, <<"A","n","n">>, <<"r","e","a","c","t"," ","a","i">>, "github", << <<"r","e","a","c","t">>, <<"a","i">> >>, 70),
    Profile(2, <<"B","o","b">>, <<>>, "twitter", <<>>, 0),
    Profile(3, <<"E","v","e">>, <<"m","l">>, "github", <<>>, -50),
    Profile(4, <<"D","a","n">>, <<"s","t","a","r","t","u","p"," ","f","o","u","n","d","e","r"," ","a","n","d"," ","c","e","o">>, "linkedin", << <<"s","t","a","r","t","u","p">> >>, 150),
    Profile(5, <<"F","a","y">>, <<>>, "github", << <<"t","e","c","h">>, <<"f","i","n","t","e","c","h">>, <<"h","e","a","l","t","h","t","e","c","h">>, <<"e","d","t","e","c","h">> >>, 70) }

\* the company DNA of a matching request
MatcherQueries ==
  { <<"a","i">>, <<"r","e","a","c","t"," ","a","p","p","s">>, <<"f","i","n","t","e","c","h"," ","h","e","a","l","t","h","t","e","c","h"," ","e","d","t","e","c","h">> }

\* days since last_updated
Days == {0, 5, 20, 60, 100}

\* ProfileMatcher.matchProfiles
\* a / b < c / d for positive b and d, compared without multiplying across
RECURSIVE LessRatio(_, _, _, _)
LessRatio(a, b, c, d) ==
  IF a \div b # c \div d THEN a \div b < c \div d
  ELSE IF c % d = 0 THEN FALSE
  ELSE IF a % b = 0 THEN TRUE
  ELSE LessRatio(d, c % d, b, a % b)

Less(x, y) == LessRatio(x.num, x.den, y.num, y.den)

\* a threshold that lets every score pass
Relevant_any(score) == TRUE

\* score.score > 0.1
Relevant(score) == Less(Ratio(1, 10), score)

\* the MatchScore of a profile (its reasons left out)
MatchScore(profile, score) == [profile |-> profile, score |-> score]

\* insert x behind every match whose score is not smaller
RECURSIVE InsertMatch(_, _)
InsertMatch(sorted, x) ==
  IF sorted = <<>> THEN <<x>>
  ELSE IF ~Less(Head(sorted).score, x.score)
       THEN <<Head(sorted)>> \o InsertMatch(Tail(sorted), x)
       ELSE <<x>> \o sorted

\* matches.sort((a, b) => b.score - a.score), a stable sort
RECURSIVE SortMatches(_)
SortMatches(matches) ==
  IF matches = <<>> THEN <<>>
  ELSE InsertMatch(SortMatches(SubSeq(matches, 1, Len(matches) - 1)),
                   matches[Len(matches)])

\* the loop of matchProfiles over the profiles from index i on; platform is
\* <<>> when no filter is given; outs and days: by profile id, what the
\* embedding service answers for the bio and the days since last_updated
RECURSIVE Matches(_, _, _, _, _, _, _)
Matches(companyDNA, profiles, platform, companyEmbedding, outs, days, i) ==
  IF i > Len(profiles) THEN <<>>
  ELSE IF platform # <<>> /\ <<profiles[i].platform>> # platform
  THEN Matches(companyDNA, profiles, platform, companyEmbedding, outs, days, i + 1)
  ELSE LET score == calculateMatchScore(companyDNA, profiles[i], TRUE, companyEmbedding,
                                        outs[profiles[i].id], days[profiles[i].id])
       IN (IF Relevant(score) THEN <<MatchScore(profiles[i], score)>> ELSE <<>>)
          \o Matches(companyDNA, profiles, platform, companyEmbedding, outs, days, i + 1)

matchProfiles(companyDNA, profiles, platform, limit, companyOut, outs, days) ==
  Take(SortMatches(Matches(companyDNA, profiles, platform, getEmbedding(companyOut),
                           outs, days, 1)),
       limit)

\* the limit of matchProfiles when none is passed
DefaultMatches == 10

\* the profile lists, platform filters and limits of a matching request
MatcherIds == { p.id : p \in MatcherProfiles }
ById(id) == CHOOSE p \in MatcherProfiles : p.id = id
ProfileLists ==
  { [i \in 1..Len(ids) |-> ById(ids[i])] :
      ids \in { <<>>, <<2>>, <<1, 2, 5>>, <<5, 4, 1>>, <<3, 1, 4, 2>>, <<2, 3, 5, 4, 1>> } }
PlatformFilters == { <<>>, <<"github">>, <<"twitter">> }
MatchLimits == 0..MaxLimit \cup {DefaultMatches}
ProfileOuts ==
  { [id \in MatcherIds |-> Throws],
    [id \in MatcherIds |-> Found(<<1, 0>>)],
    [id \in MatcherIds |-> IF id = 1 THEN Found(<<0, 1>>) ELSE Found(<<3, 4>>)] }
ProfileDays ==
  { [id \in MatcherIds |-> 0],
    [id \in MatcherIds |-> IF id = 1 THEN 100 ELSE 5] }

\* ------------------------------------------------- the rate-limit middleware
RATE_LIMIT == [windowMs |-> 60 * 1000, maxRequests |-> 20]

\* s.startsWith(prefix)
StartsWith(s, prefix) ==
  Len(s) >= Len(prefix) /\ SubSeq(s, 1, Len(prefix)) = prefix

\* forwarded.split(',')[0]
FirstOfList(forwarded) ==
  IF "," \in Range(forwarded)
  THEN SubSeq(forwarded, 1, (CHOOSE i \in 1..Len(forwarded) :
                               forwarded[i] = "," /\ \A j \in 1..(i - 1) : forwarded[j] # ",") - 1)
  ELSE forwarded

\* getClientId; forwarded: the x-forwarded-for header, <<>> when absent
getClientId(forwarded) ==
  IF forwarded # <<>> THEN FirstOfList(forwarded) ELSE <<"unknown">>

\* the scraping endpoints
RateLimited(pathname) ==
  \/ StartsWith(pathname, <<"/","a","p","i","/","o","n","-","d","e","m","a","n","d","-","s","c","r","a","p","e">>)
  \/ StartsWith(pathname, <<"/","a","p","i","/","g","e","n","e","r","a","t","e","-","l","e","a","d","s">>)

\* a limit that lets one more request pass
Exceeded_late(rateLimit) == rateLimit.count > RATE_LIMIT.maxRequests

\* rateLimit.count >= RATE_LIMIT.maxRequests
Exceeded(rateLimit) == rateLimit.count >= RATE_LIMIT.maxRequests

\* the entry of the client, a new one when it has none or its window is over
RateLimitOf(map, clientId, t) ==
  IF clientId \notin DOMAIN map \/ t > map[clientId].resetTime
  THEN [count |-> 0, resetTime |-> t + RATE_LIMIT.windowMs]
  ELSE map[clientId]

\* rateLimitMap.set(clientId, rateLimit)
MapSet(map, clientId, rateLimit) ==
  [c \in DOMAIN map \cup {clientId} |-> IF c = clientId THEN rateLimit ELSE map[c]]

\* what the middleware answers and what it leaves in the map; 200 stands for
\* NextResponse.next()
Limited(map, status) == [map |-> map, status |-> status]

middleware(map, t, pathname, forwarded) ==
  IF ~RateLimited(pathname) THEN Limited(map, 200)
  ELSE IF Exceeded(RateLimitOf(map, getClientId(forwarded), t)) THEN Limited(map, 429)
  ELSE Limited(MapSet(map, getClientId(forwarded),
                      [RateLimitOf(map, getClientId(forwarded), t) EXCEPT !.count = @ + 1]),
               200)

\* the request the middleware sees
Incoming(pathname, forwarded, clientId) ==
  [handler |-> "middleware", pathname |-> pathname, forwarded |-> forwarded,
   clientId |-> clientId]

Pathnames ==
  { <<"/","a","p","i","/","o","n","-","d","e","m","a","n","d","-","s","c","r","a","p","e">>,
    <<"/","a","p","i","/","g","e","n","e","r","a","t","e","-","l","e","a","d","s","/","x">>,
    <<"/","a","p","i","/","t","r","a","c","k","-","p","r","o","f","i","l","e">> }

\* x-forwarded-for headers: absent, one address, a list of addresses
ForwardedFor == { <<>>, <<"7">>, <<"7", ",", " ", "8">> }

\* ------------------------------------------------------------------ state
VARIABLES
  pc,        \* where the handler stands: idle, scrape, analyze, save, done
  req,       \* the request being served and the environment it runs in
  profiles,  \* what scrapeProfiles returned
  thrown,    \* the message of the Error scrapeProfiles threw, "none" if none
  analyzed,  \* what analyzeProfilesWithAI returned
  launched,  \* browser sessions launched
  closed,    \* browser sessions closed
  apiLog,    \* the answers of the GitHub user-search API, in call order
  aiCalls,   \* calls of the language model
  aiOuts,    \* the model's answers, one per enriched profile
  saves,     \* calls of saveProfilesToDatabase
  db,        \* the rows of the profiles table
  sources,   \* generate-leads: what the store and the acquisition answered
  run,       \* the last run of the scheduled scraper
  resp,      \* the response, NoResponse until the handler answers
  call,      \* the last call of a pure function: its name, argument and result
  rateLimitMap,     \* middleware: by client id, the count and the reset time
  now,              \* the clock Date.now() reads, in milliseconds
  tracked_profiles, \* the rows of the tracked_profiles table
  tracking_count,   \* the tracking_count of the stored profile
  requests          \* the track and untrack requests received so far

vars == <<pc, req, profiles, thrown, analyzed, launched, closed, apiLog, aiCalls, aiOuts,
          saves, db, sources, run, resp, call, rateLimitMap, now, tracked_profiles, tracking_count, requests>>

\* no request went through the middleware yet
NoLimiter ==
  /\ rateLimitMap = <<>>
  /\ now = 0

\* nobody tracks the stored profile
NoTracking ==
  /\ tracked_profiles = {}
  /\ tracking_count = 0
  /\ requests = <<>>

Request(handler, v, query, platform, limit, token, groqKey) ==
  [handler |-> handler, v |-> v, query |-> query, platform |-> platform,
   limit |-> limit, token |-> token, groqKey |-> groqKey]

NoRequest == Request("none", "none", <<>>, "none", 0, FALSE, FALSE)
NoSources == [db |-> NotCalled, scrape |-> NotCalled]
NoRun == Run(0, 0, <<>>, <<>>, FALSE)

\* a call of a pure function: the revision it belongs to, its argument, its result
Call(fn, v, arg, result) == [fn |-> fn, v |-> v, arg |-> arg, result |-> result]
NoCall == Call("none", "none", <<>>, <<>>)

Idle ==
  /\ pc = "idle"
  /\ req = NoRequest
  /\ profiles = <<>>
  /\ thrown = "none"
  /\ analyzed = <<>>
  /\ launched = 0
  /\ closed = 0
  /\ apiLog = <<>>
  /\ aiCalls = 0
  /\ aiOuts = <<>>
  /\ saves = 0
  /\ db = <<>>
  /\ sources = NoSources
  /\ run = NoRun
  /\ resp = NoResponse
  /\ call = NoCall
  /\ NoLimiter
  /\ NoTracking

Init == Idle

\* ------------------------------------------------ on-demand-scrape: steps
\* what the Twitter API may answer
TwitterOutcomes ==
  {Throws, Status(401)} \cup { Found(l) : l \in DistinctSeqsUpTo(People, MaxItems) }

\* the calls a scrapeProfiles run really made
Called(api) == SelectSeq(api, LAMBDA o : o.kind # "none")

\* a variant that goes on to scrapeProfiles without looking at the query
Receive_unvalidated ==
  /\ pc = "idle"
  /\ \E v \in Variants, query \in {<<>>, Query}, platform \in Platforms,
        limit \in Limits, token \in BOOLEAN, groqKey \in BOOLEAN :
       /\ req' = Request("onDemand", v, query, platform, limit, token, groqKey)
       /\ resp' = resp
       /\ pc' = "scrape"
  /\ UNCHANGED <<rateLimitMap, now, tracked_profiles, tracking_count, requests,
                 call, profiles, thrown, analyzed, launched, closed, apiLog, aiCalls, aiOuts,
                 saves, db, sources, run>>

\* POST up to the call of scrapeProfiles
Receive ==
  /\ pc = "idle"
  /\ \E v \in Variants, query \in {<<>>, Query}, platform \in Platforms,
        limit \in Limits, token \in BOOLEAN, groqKey \in BOOLEAN :
       /\ req' = Request("onDemand", v, query, platform, limit, token, groqKey)
       /\ IF query = <<>>
          THEN /\ resp' = Response(400, "error", <<>>, "none")
               /\ pc' = "done"
          ELSE /\ resp' = resp
               /\ pc' = "scrape"
  /\ UNCHANGED <<rateLimitMap, now, tracked_profiles, tracking_count, requests,
                 call, profiles, thrown, analyzed, launched, closed, apiLog, aiCalls, aiOuts,
                 saves, db, sources, run>>

\* what the browser-scrape stage of scrapeGitHubProfiles met: the search page
\* and the profiles its card loop parsed
PageScrape(page, parsed) == [page |-> page, parsed |-> parsed]

\* scrapeProfiles and the branch POST takes on its result; a call of
\* scrapeGitHubProfiles is recorded with the API calls it went on to
Scrape ==
  /\ pc = "scrape"
  /\ \E launch \in BOOLEAN :
     \E setup \in IF launch THEN BOOLEAN ELSE {TRUE} :
     \E repos \in IF launch /\ setup /\ req.v = "p5b" /\ req.platform = "github"
                     /\ req.token
                  THEN RepoOutcomes ELSE {NotCalled} :
     \E remainingLimit \in
          { IF req.v = "p5b"
            THEN req.limit - Len(scrapeGitHubFromRepos(req.token, repos,
                                                       req.limit \div 2, 1))
            ELSE req.limit } :
     \E pageUsed \in
          { /\ launch /\ setup
            /\ remainingLimit > 0
            /\ \/ req.platform = "github"
               \/ req.v = "route" /\ req.platform \in {"twitter", "linkedin"} } :
     \E page \in IF pageUsed THEN PageOutcomes ELSE {NotCalled} :
     \E apiUsed \in
          { /\ pageUsed /\ req.platform = "github" /\ CallsApi(page)
            /\ (req.v = "route" \/ req.token) } :
     \E o1 \in IF apiUsed THEN ApiOutcomes(remainingLimit) ELSE {NotCalled} :
     \E o2 \in IF apiUsed /\ CallsApiAgain(req.v, req.token, page, o1, remainingLimit)
               THEN ApiOutcomes(remainingLimit) ELSE {NotCalled} :
     \E tw \in IF launch /\ setup /\ req.v # "route" /\ req.platform = "twitter"
               THEN TwitterOutcomes ELSE {NotCalled} :
     \E r \in { scrapeProfiles(req.v, req.token, req.platform, req.limit,
                               World(launch, setup, page, o1, o2, repos, tw), 1) } :
     \E answer \in { ScrapeResponse(req.v, r.res) } :
        /\ launched' = launched + r.launched
        /\ closed' = closed + r.closed
        /\ apiLog' = apiLog \o Called(r.api)
        /\ profiles' = r.res.val
        /\ thrown' = r.res.err
        /\ resp' = answer
        /\ pc' = IF answer = NoResponse THEN "analyze" ELSE "done"
        /\ call' = IF pageUsed /\ req.platform = "github"
                   THEN Call("scrapeGitHubProfiles", req.v,
                             PageScrape(page, CardProfiles(req.v, page.items, "github",
                                                           FALSE, remainingLimit, 1)),
                             r.api)
                   ELSE call
  /\ UNCHANGED <<rateLimitMap, now, tracked_profiles, tracking_count, requests,
                 req, analyzed, aiCalls, aiOuts, saves, db, sources, run>>

\* the model was not asked
AiNotCalled == [kind |-> "none", fitSummary |-> JUndefined, score |-> JUndefined,
                tags |-> JUndefined]

\* analyzeProfilesWithAI with the model answering from `answers`; the second
\* revision of part_005 responds right after it
Analyze(answers) ==
  /\ pc = "analyze"
  /\ \E outs \in [1..Len(profiles) ->
                    IF CallsModel(req.v, req.groqKey) THEN answers ELSE {AiNotCalled}] :
       /\ analyzed' = analyzeProfilesWithAI(req.v, req.query, profiles, req.groqKey, outs)
       /\ aiOuts' = outs
       /\ aiCalls' = aiCalls + (IF CallsModel(req.v, req.groqKey) THEN Len(profiles) ELSE 0)
       /\ IF req.v = "p5b"
          THEN /\ resp' = Response(200, "profiles", analyzed', "none")
               /\ pc' = "done"
          ELSE /\ resp' = resp
               /\ pc' = "save"
  /\ UNCHANGED <<rateLimitMap, now, tracked_profiles, tracking_count, requests,
                 call, req, profiles, thrown, launched, closed, apiLog, saves, db, sources, run>>

\* saveProfilesToDatabase and the final response
Save ==
  /\ pc = "save"
  /\ \/ /\ req.v = "route"
        /\ \E oks \in [1..Len(analyzed) -> BOOLEAN] :
             db' = saveProfilesToDatabase_route(db, analyzed, oks)
     \/ /\ req.v = "p5a"
        /\ \E ok \in BOOLEAN : db' = saveProfilesToDatabase_p5a(db, analyzed, ok)
  /\ saves' = saves + 1
  /\ resp' = Response(200, "profiles", analyzed, "none")
  /\ pc' = "done"
  /\ UNCHANGED <<rateLimitMap, now, tracked_profiles, tracking_count, requests,
                 call, req, profiles, thrown, analyzed, launched, closed, apiLog, aiCalls, aiOuts,
                 sources, run>>

\* ------------------------------------------------------ the other handlers
\* test-scrape-only POST
TestScrape ==
  /\ pc = "idle"
  /\ \E platform \in Platforms, limit \in Limits, token \in BOOLEAN, launch \in BOOLEAN :
     \E setup \in IF launch THEN BOOLEAN ELSE {TRUE} :
     \E out \in IF launch /\ setup /\ token /\ platform \in {"github", "twitter"}
                THEN ApiOutcomes(limit) ELSE {NotCalled} :
     \E r \in { testScrapeOnly(token, platform, limit, launch, setup, out) } :
          /\ req' = Request("testScrape", "route", Query, platform, limit, token, FALSE)
          /\ launched' = launched + r.launched
          /\ closed' = closed + r.closed
          /\ resp' = IF r.res.ok THEN Response(200, "profiles", r.res.val, "none")
                     ELSE Response(500, "error", <<>>, "none")
  /\ pc' = "done"
  /\ UNCHANGED <<rateLimitMap, now, tracked_profiles, tracking_count, requests,
                 call, profiles, thrown, analyzed, apiLog, aiCalls, aiOuts, saves, db, sources, run>>

\* the batch upsert of the scheduled scraper, with onConflict: 'profile_url';
\* part_002 builds the profile_url from the name and the platform of the profile
saveProfilesToDatabase_scheduled(rows, batch, ok) ==
  LET RECURSIVE Loop(_, _)
      Loop(i, acc) ==
        IF i > Len(batch) THEN acc ELSE Loop(i + 1, UpsertByKey(acc, batch[i]))
  IN IF batch = <<>> \/ ~ok THEN rows ELSE Loop(1, rows)

\* one run of the scheduled scraper
Scheduled ==
  /\ pc = "idle"
  /\ \E launch \in BOOLEAN :
     \E outs \in [1..Len(ScheduledPlatforms) ->
                    IF launch THEN TrendingOutcomes ELSE {NotCalled}] :
     \E saveOk \in IF \E i \in 1..Len(outs) : outs[i].items # <<>>
                   THEN BOOLEAN ELSE {TRUE} :
     \E r \in { runScheduledScrape(launch, outs, saveOk) } :
          /\ run' = r
          /\ launched' = launched + r.launched
          /\ closed' = closed + r.closed
          /\ saves' = saves + (IF r.collected # <<>> THEN 1 ELSE 0)
          /\ db' = saveProfilesToDatabase_scheduled(db, r.collected, saveOk)
          /\ sources' = [db |-> NotCalled, scrape |-> outs]
  /\ req' = Request("scheduled", "part_002", <<>>, "none", 0, FALSE, FALSE)
  /\ pc' = "done"
  /\ UNCHANGED <<rateLimitMap, now, tracked_profiles, tracking_count, requests,
                 call, profiles, thrown, analyzed, apiLog, aiCalls, aiOuts, resp>>

\* generate-leads POST of route.ts
GenerateLeads_route ==
  /\ pc = "idle"
  /\ \E companyDNA \in {<<>>, Query}, limit \in Limits :
     \E dbOut \in IF companyDNA # <<>> THEN DbOutcomes(limit) ELSE {NotCalled} :
     \E scrapeOut \in IF companyDNA # <<>> /\ NeedsScraping(limit, dbOut)
                      THEN ScrapeOutcomes(limit) ELSE {NotCalled} :
       /\ req' = Request("generateLeads", "route", companyDNA, "github", limit,
                         FALSE, FALSE)
       /\ sources' = [db |-> dbOut, scrape |-> scrapeOut]
       /\ resp' = IF companyDNA = <<>> THEN Response(400, "error", <<>>, "none")
                  ELSE generateLeads_route(limit, dbOut, scrapeOut)
  /\ pc' = "done"
  /\ UNCHANGED <<rateLimitMap, now, tracked_profiles, tracking_count, requests,
                 call, profiles, thrown, analyzed, launched, closed, apiLog, aiCalls, aiOuts,
                 saves, db, run>>

\* generate-leads POST of part_008
GenerateLeads_p8 ==
  /\ pc = "idle"
  /\ \E companyDNA \in {<<>>, Query}, limit \in Limits :
     \E scrapeOut \in IF companyDNA # <<>> THEN ScrapeOutcomes(limit) ELSE {NotCalled} :
       /\ req' = Request("generateLeads", "p8", companyDNA, "github", limit,
                         FALSE, FALSE)
       /\ sources' = [db |-> NotCalled, scrape |-> scrapeOut]
       /\ resp' = IF companyDNA = <<>> THEN Response(400, "error", <<>>, "none")
                  ELSE generateLeads_p8(limit, scrapeOut)
  /\ pc' = "done"
  /\ UNCHANGED <<rateLimitMap, now, tracked_profiles, tracking_count, requests,
                 call, profiles, thrown, analyzed, launched, closed, apiLog, aiCalls, aiOuts,
                 saves, db, run>>

\* ---------------------------------------------------------- specifications
\* answers of the model in the request pipeline: a failure and a well-formed one
AiAnswers ==
  { AiThrows,
    Payload(JStr(<<"good fit">>), JNum(85), JArr(<<JStr(<<"m","l">>)>>)) }

AnalyzeAnswers == Analyze(AiAnswers)

Next ==
  \/ Receive
  \/ Scrape
  \/ AnalyzeAnswers
  \/ Save
  \/ TestScrape
  \/ Scheduled
  \/ GenerateLeads_route
  \/ GenerateLeads_p8

Spec == Init /\ [][Next]_vars

\* the enrichment on its own: every answer the model may give, to the
\* profiles the GitHub API stage scrapes
FitSummaries == { JUndefined, JNum(100), JStr(<<"good fit">>) }
Scores == { JUndefined, JStr(<<"0",".","9">>), JNum(-50), JNum(0), JNum(85), JNum(150) }
TagLists ==
  { JUndefined, JNum(500), JArr(<<JStr(<<"m","l">>)>>),
    JArr(<<JStr(<<"r","e","a","c","t">>), JNum(500)>>) }

\* a well-formed answer with nine tags
ManyTags ==
  Strs(<< <<"r","u","s","t">>, <<"g","o">>, <<"s","q","l">>,
          <<"a","w","s">>, <<"u","x">>, <<"u","i">>,
          <<"m","l">>, <<"j","a","v","a">>, <<"n","o","d","e">> >>)

AiPayloads ==
  { AiThrows, AiNoContent, AiNoJson } \cup
  { Payload(fs, sc, tg) : fs \in FitSummaries, sc \in Scores, tg \in TagLists } \cup
  { Payload(JStr(<<"good fit">>), JNum(85), JArr(ManyTags)) }

\* -------------------------------------- the profile analysis of generate-leads
\* String.prototype.split(' ')
RECURSIVE SplitSpace(_, _, _)
SplitSpace(text, i, cur) ==
  IF i > Len(text) THEN <<cur>>
  ELSE IF text[i] = " " THEN <<cur>> \o SplitSpace(text, i + 1, <<>>)
  ELSE SplitSpace(text, i + 1, Append(cur, text[i]))

\* 0.5, plus 0.3 times the share of the long words of the company DNA that the
\* bio contains, plus 0.2 times the share of the tags that the DNA contains
calculateFallbackScore(profile, companyDNA) ==
  LET dna == ToLowerCase(companyDNA)
      bio == ToLowerCase(profile.bio)
      dnaWords == SelectSeq(SplitSpace(dna, 1, <<>>), LAMBDA word : Len(word) > 3)
      matchingWords == SelectSeq(dnaWords, LAMBDA word : Includes(bio, word))
      matchingTags == SelectSeq(profile.tags,
                                LAMBDA tag : Includes(dna, ToLowerCase(tag.s)))
      d == Max(Len(dnaWords), 1)
      k == Max(Len(profile.tags), 1)
      num == 50 * d * k + 30 * Len(matchingWords) * k + 20 * Len(matchingTags) * d
  IN IF num > 100 * d * k THEN JNum(100) ELSE JFrac(num, d * k)

\* the profile's tags, then the common tags the company DNA names, ten at most
extractFallbackTags(profile, companyDNA) ==
  LET dna == ToLowerCase(companyDNA)
      existingTags == SetOrder(profile.tags)
  IN Take(existingTags
            \o SelectSeq(Strs(commonTags),
                         LAMBDA tag : Includes(dna, tag.s)
                                        /\ tag \notin Range(existingTags)),
          TagLimit)

\* the analysis of the catch block
FallbackAnalysis(fallbackScore, fallbackTags) ==
  [score |-> fallbackScore,
   fitSummary |->
     JStr(<<"Profile shows ">>
          \o (IF fallbackScore.n >= 70 * fallbackScore.d THEN <<"strong">>
              ELSE IF fallbackScore.n >= 50 * fallbackScore.d THEN <<"moderate">>
              ELSE <<"some">>)
          \o <<" potential alignment with your company's focus.">>),
   enhancedTags |-> fallbackTags]

\* analyzeProfileWithAI, for an answer whose score is a number or missing
\* (out.tags: the enhancedTags of the answer; the reasoning text, which no
\* profile field takes, is left out)
analyzeProfileWithAI(profile, companyDNA, out) ==
  IF out.kind = "json"
  THEN [score |-> JNum(Max(0, Min(100, OrElse(out.score, JNum(50)).n))),
        fitSummary |->
          OrElse(out.fitSummary,
                 JStr(<<"Profile shows potential alignment with company needs.">>)),
        enhancedTags |-> IF out.tags.t = "array" THEN Take(out.tags.a, TagLimit)
                         ELSE profile.tags]
  ELSE FallbackAnalysis(calculateFallbackScore(profile, companyDNA),
                        extractFallbackTags(profile, companyDNA))

\* the profile with the analysis results
WithAnalysis(profile, analysis) ==
  [profile EXCEPT !.score = analysis.score,
                  !.fit_summary = analysis.fitSummary,
                  !.tags = analysis.enhancedTags]

\* select('*').eq('id', profileId).single()
SelectById(rows, profileId, lookupOk) ==
  IF lookupOk THEN SelectSeq(rows, LAMBDA row : row.id = profileId) ELSE <<>>

\* the profile analysis POST; found: what the store lookup brought
analyzeProfile(rows, profileId, companyDNA, found, out, updateOk) ==
  IF profileId = 0 \/ companyDNA = <<>>
  THEN [resp |-> Response(400, "error", <<>>, "none"), db |-> rows,
        call |-> NoCall, aiCalls |-> 0, aiOuts |-> <<>>]
  ELSE IF found = <<>>
  THEN [resp |-> Response(404, "error", <<>>, "none"), db |-> rows,
        call |-> NoCall, aiCalls |-> 0, aiOuts |-> <<>>]
  ELSE [resp |-> Response(200, "profile",
                          <<WithAnalysis(found[1],
                                         analyzeProfileWithAI(found[1], companyDNA, out))>>,
                          "none"),
        db |-> IF updateOk
               THEN UpsertById(rows, WithAnalysis(found[1],
                                       analyzeProfileWithAI(found[1], companyDNA, out)))
               ELSE rows,
        call |-> Call("analyzeProfileWithAI", "generate-leads", found,
                      <<analyzeProfileWithAI(found[1], companyDNA, out)>>),
        aiCalls |-> 1, aiOuts |-> <<out>>]

\* the requests of the profile analysis and the answers of the model
ProfileIds == {0, 1, 9}
CompanyDNAs == { <<>>, <<"a","i">>, <<"r","e","a","c","t"," ","a","p","p","s">> }
ElevenTags == ManyTags \o Strs(<< <<"c","s","s">>, <<"h","t","m","l">> >>)
AnalysisAnswers ==
  { AiThrows, AiNoContent, AiNoJson } \cup
  { Payload(fs, sc, tg) :
      fs \in { JUndefined, JStr(<<"good fit">>) },
      sc \in { JUndefined, JNum(-50), JNum(85), JNum(150) },
      tg \in { JUndefined, JArr(Strs(<< <<"m","l">> >>)), JArr(ElevenTags) } }

\* the rows the store holds before a profile analysis
StoredProfiles ==
  { scrapeGitHubWithAPI("route", TRUE, Found(items), Len(items), 1).val :
      items \in { <<"ann">>, <<"ann", "dan">> } }

\* the profile analysis POST of generate-leads
AnalyzeProfile ==
  /\ pc = "idle"
  /\ \E profileId \in ProfileIds, companyDNA \in CompanyDNAs, lookupOk \in BOOLEAN :
     \E found \in { SelectById(db, profileId, lookupOk) } :
     \E out \in IF profileId # 0 /\ companyDNA # <<>> /\ found # <<>>
                THEN AnalysisAnswers ELSE {AiNotCalled} :
     \E updateOk \in IF out = AiNotCalled THEN {TRUE} ELSE BOOLEAN :
     \E r \in { analyzeProfile(db, profileId, companyDNA, found, out, updateOk) } :
          /\ req' = Request("analyzeProfile", "route", companyDNA, "none", 0, FALSE, TRUE)
          /\ resp' = r.resp
          /\ db' = r.db
          /\ call' = r.call
          /\ aiCalls' = aiCalls + r.aiCalls
          /\ aiOuts' = r.aiOuts
  /\ pc' = "done"
  /\ UNCHANGED <<rateLimitMap, now, tracked_profiles, tracking_count, requests,
                 profiles, thrown, analyzed, launched, closed, apiLog, saves, sources, run>>

InitEnrich ==
  /\ \/ /\ pc = "analyze"
        /\ \E v \in Variants, groqKey \in BOOLEAN :
           \E items \in DistinctSeqsUpTo({"ann", "dan"}, MaxItems) \ {<<>>} :
             /\ req = Request("onDemand", v, Query, "github", Len(items), TRUE, groqKey)
             /\ profiles = scrapeGitHubWithAPI(v, TRUE, Found(items), Len(items), 1).val
             /\ apiLog = <<Found(items)>>
        /\ launched = 1
        /\ closed = 1
        /\ db = <<>>
     \/ /\ pc = "idle"
        /\ req = NoRequest
        /\ profiles = <<>>
        /\ apiLog = <<>>
        /\ launched = 0
        /\ closed = 0
        /\ db \in StoredProfiles
  /\ thrown = "none"
  /\ analyzed = <<>>
  /\ aiCalls = 0
  /\ aiOuts = <<>>
  /\ saves = 0
  /\ sources = NoSources
  /\ run = NoRun
  /\ resp = NoResponse
  /\ call = NoCall
  /\ NoLimiter
  /\ NoTracking

AnalyzePayloads == Analyze(AiPayloads)

NextEnrich ==
  \/ AnalyzePayloads
  \/ Save
  \/ AnalyzeProfile

SpecEnrich == InitEnrich /\ [][NextEnrich]_vars

\* ------------------------------------------------------- the pure functions
\* every pure function on its own, applied to the inputs a request may bring
InitPure ==
  /\ pc = "pure"
  /\ req = NoRequest
  /\ profiles = <<>>
  /\ thrown = "none"
  /\ analyzed = <<>>
  /\ launched = 0
  /\ closed = 0
  /\ apiLog = <<>>
  /\ aiCalls = 0
  /\ aiOuts = <<>>
  /\ saves = 0
  /\ db = <<>>
  /\ sources = NoSources
  /\ run = NoRun
  /\ resp = NoResponse
  /\ call = NoCall
  /\ NoLimiter
  /\ NoTracking

\* one call of parseGitHubQuery
ParseGitHubQuery ==
  /\ pc = "pure"
  /\ call = NoCall
  /\ \E prompt \in Prompts \cup ActivityPrompts :
       \/ call' = Call("parseGitHubQuery", "route", prompt, parseGitHubQuery_route(prompt))
       \/ \E random \in 0..(Len(sortOptions) - 1) :
            call' = Call("parseGitHubQuery", "p5", prompt,
                         parseGitHubQuery_p5(prompt, random))
  /\ UNCHANGED <<rateLimitMap, now, tracked_profiles, tracking_count, requests,
                 pc, req, profiles, thrown, analyzed, launched, closed, apiLog, aiCalls,
                 aiOuts, saves, db, sources, run, resp>>

\* one call of extractTags
ExtractTags ==
  /\ pc = "pure"
  /\ call = NoCall
  /\ \E text \in Texts :
       \/ call' = Call("extractTags", "route", text, extractTags_route(text))
       \/ call' = Call("extractTags", "p5", text, extractTags(text))
       \/ call' = Call("extractTags", "part_002", text, extractTags_p2(text))
  /\ UNCHANGED <<rateLimitMap, now, tracked_profiles, tracking_count, requests,
                 pc, req, profiles, thrown, analyzed, launched, closed, apiLog, aiCalls,
                 aiOuts, saves, db, sources, run, resp>>

\* one call of getEmbedding
GetEmbedding ==
  /\ pc = "pure"
  /\ call = NoCall
  /\ \E out \in EmbeddingOutcomes :
       call' = Call("getEmbedding", "matcher", out, getEmbedding(out))
  /\ UNCHANGED <<rateLimitMap, now, tracked_profiles, tracking_count, requests,
                 pc, req, profiles, thrown, analyzed, launched, closed, apiLog, aiCalls,
                 aiOuts, saves, db, sources, run, resp>>

\* one call of calculateCosineSimilarity
CalculateCosineSimilarity ==
  /\ pc = "pure"
  /\ call = NoCall
  /\ \E out1 \in EmbeddingOutcomes, out2 \in EmbeddingOutcomes :
       call' = Call("calculateCosineSimilarity", "matcher",
                    <<getEmbedding(out1), getEmbedding(out2)>>,
                    calculateCosineSimilarity(getEmbedding(out1), getEmbedding(out2)))
  /\ UNCHANGED <<rateLimitMap, now, tracked_profiles, tracking_count, requests,
                 pc, req, profiles, thrown, analyzed, launched, closed, apiLog, aiCalls,
                 aiOuts, saves, db, sources, run, resp>>

\* what a call of calculateMatchScore met
Matching(companyDNA, profile, given, companyOut, profileOut, daysSinceUpdate) ==
  [companyDNA |-> companyDNA, profile |-> profile, given |-> given,
   companyOut |-> companyOut, profileOut |-> profileOut,
   daysSinceUpdate |-> daysSinceUpdate]

\* one call of calculateMatchScore, with the embedding of the company DNA that
\* matchProfiles got before it
CalculateMatchScore ==
  /\ pc = "pure"
  /\ call = NoCall
  /\ \E companyDNA \in MatcherQueries, profile \in MatcherProfiles,
        given \in BOOLEAN, daysSinceUpdate \in Days :
     \E companyOut \in IF given THEN EmbeddingOutcomes ELSE {NotCalled} :
     \E profileOut \in IF given /\ profile.bio # <<>> THEN EmbeddingOutcomes
                       ELSE {NotCalled} :
       call' = Call("calculateMatchScore", "matcher",
                    Matching(companyDNA, profile, given, companyOut, profileOut,
                             daysSinceUpdate),
                    calculateMatchScore(companyDNA, profile, given,
                                        getEmbedding(companyOut), profileOut,
                                        daysSinceUpdate))
  /\ UNCHANGED <<rateLimitMap, now, tracked_profiles, tracking_count, requests,
                 pc, req, profiles, thrown, analyzed, launched, closed, apiLog, aiCalls,
                 aiOuts, saves, db, sources, run, resp>>

\* one call of isTagMatch
IsTagMatch ==
  /\ pc = "pure"
  /\ call = NoCall
  /\ \E tag1 \in Tags, tag2 \in Tags :
       call' = Call("isTagMatch", "matcher", <<tag1, tag2>>, isTagMatch(tag1, tag2))
  /\ UNCHANGED <<rateLimitMap, now, tracked_profiles, tracking_count, requests,
                 pc, req, profiles, thrown, analyzed, launched, closed, apiLog, aiCalls,
                 aiOuts, saves, db, sources, run, resp>>

\* one call of matchProfiles
MatchProfiles ==
  /\ pc = "pure"
  /\ call = NoCall
  /\ \E companyDNA \in MatcherQueries, list \in ProfileLists,
        platform \in PlatformFilters, limit \in MatchLimits,
        companyOut \in {Throws, Found(<<1, 0>>)}, outs \in ProfileOuts,
        days \in ProfileDays :
       call' = Call("matchProfiles", "matcher",
                    [companyDNA |-> companyDNA, profiles |-> list,
                     platform |-> platform, limit |-> limit,
                     companyOut |-> companyOut, outs |-> outs, days |-> days],
                    matchProfiles(companyDNA, list, platform, limit, companyOut,
                                  outs, days))
  /\ UNCHANGED <<rateLimitMap, now, tracked_profiles, tracking_count, requests,
                 pc, req, profiles, thrown, analyzed, launched, closed, apiLog, aiCalls,
                 aiOuts, saves, db, sources, run, resp>>

\* what the GitHub user-search API may answer whatever per_page asks for
ApiAnswers ==
  {Throws} \cup { Status(c) : c \in ErrorStatuses }
           \cup { Found(l) : l \in DistinctSeqsUpTo(People, MaxItems) }

\* a call of scrapeProfiles
Scraping(platform, limit, token) == [platform |-> platform, limit |-> limit, token |-> token]

\* one call of scrapeProfiles in a browser session that starts
ScrapeProfiles ==
  /\ pc = "pure"
  /\ call = NoCall
  /\ \E v \in Variants, platform \in Platforms, limit \in 0..MaxLimit, token \in BOOLEAN :
     \E repos \in IF v = "p5b" /\ platform = "github" /\ token
                  THEN RepoOutcomes ELSE {NotCalled} :
     \E remainingLimit \in
          { IF v = "p5b" /\ platform = "github"
            THEN limit - Len(scrapeGitHubFromRepos(token, repos, limit \div 2, 1))
            ELSE limit } :
     \E pageUsed \in
          { \/ platform = "github" /\ (v = "p5b" => remainingLimit > 0)
            \/ v = "route" /\ platform \in {"twitter", "linkedin"} } :
     \E page \in IF pageUsed THEN PageOutcomes ELSE {NotCalled} :
     \E apiUsed \in
          { /\ pageUsed /\ platform = "github" /\ CallsApi(page)
            /\ (v = "route" \/ token) } :
     \E o1 \in IF apiUsed THEN ApiAnswers ELSE {NotCalled} :
     \E o2 \in IF apiUsed /\ CallsApiAgain(v, token, page, o1, remainingLimit)
               THEN ApiAnswers ELSE {NotCalled} :
     \E tw \in IF v # "route" /\ platform = "twitter" THEN TwitterOutcomes ELSE {NotCalled} :
       call' = Call("scrapeProfiles", v, Scraping(platform, limit, token),
                    scrapeProfiles(v, token, platform, limit,
                                   World(TRUE, TRUE, page, o1, o2, repos, tw), 1).res)
  /\ UNCHANGED <<rateLimitMap, now, tracked_profiles, tracking_count, requests,
                 pc, req, profiles, thrown, analyzed, launched, closed, apiLog, aiCalls,
                 aiOuts, saves, db, sources, run, resp>>

\* one call of calculateTagMatch
TagMatching(companyDNA, profileTags) == [companyDNA |-> companyDNA, profileTags |-> profileTags]

CalculateTagMatch ==
  /\ pc = "pure"
  /\ call = NoCall
  /\ \E companyDNA \in MatcherQueries, profile \in MatcherProfiles :
       call' = Call("calculateTagMatch", "matcher",
                    TagMatching(companyDNA, profile.tags),
                    calculateTagMatch(extractTags_matcher(companyDNA), profile.tags))
  /\ UNCHANGED <<rateLimitMap, now, tracked_profiles, tracking_count, requests,
                 pc, req, profiles, thrown, analyzed, launched, closed, apiLog, aiCalls,
                 aiOuts, saves, db, sources, run, resp>>

NextPure ==
  \/ ParseGitHubQuery
  \/ ExtractTags
  \/ IsTagMatch
  \/ GetEmbedding
  \/ CalculateCosineSimilarity
  \/ CalculateMatchScore
  \/ MatchProfiles
  \/ ScrapeProfiles
  \/ CalculateTagMatch

SpecPure == InitPure /\ [][NextPure]_vars

\* ------------------------------------------- repeated acquisition runs
\* most acquisition runs that persist into one store
MaxRuns == 3

\* the id a run gives the i-th profile it acquires (randomUUID() of the
\* on-demand scraper, `github-${author}-${Date.now()}` of the scheduled one):
\* one that no stored profile has
FreshId(runs, i) == runs * (MaxItems + 1) + i

\* what a run acquires: the named people, in the order given
Acquired(runs, names) ==
  [i \in 1..Len(names) |-> Profile(FreshId(runs, i), <<names[i]>>, <<>>, "github", <<>>, 80)]

\* the store is empty and one revision of the scraper is deployed
InitStore ==
  /\ pc = "store"
  /\ \E v \in {"route", "p5a", "part_002"} : req = [NoRequest EXCEPT !.v = v]
  /\ profiles = <<>>
  /\ thrown = "none"
  /\ analyzed = <<>>
  /\ launched = 0
  /\ closed = 0
  /\ apiLog = <<>>
  /\ aiCalls = 0
  /\ aiOuts = <<>>
  /\ saves = 0
  /\ db = <<>>
  /\ sources = NoSources
  /\ run = NoRun
  /\ resp = NoResponse
  /\ call = NoCall
  /\ NoLimiter
  /\ NoTracking

\* the end of one on-demand-scrape POST: saveProfilesToDatabase on the
\* profiles the run acquired
PersistOnDemand ==
  /\ pc = "store"
  /\ saves < MaxRuns
  /\ \E names \in DistinctSeqsUpTo({"ann", "bob"}, MaxItems) :
       \/ /\ req.v = "route"
          /\ \E oks \in [1..Len(names) -> BOOLEAN] :
               db' = saveProfilesToDatabase_route(db, Acquired(saves, names), oks)
       \/ /\ req.v = "p5a"
          /\ \E ok \in BOOLEAN :
               db' = saveProfilesToDatabase_p5a(db, Acquired(saves, names), ok)
  /\ saves' = saves + 1
  /\ UNCHANGED <<rateLimitMap, now, tracked_profiles, tracking_count, requests,
                 pc, req, profiles, thrown, analyzed, launched, closed, apiLog, aiCalls,
                 aiOuts, sources, run, resp, call>>

\* the end of one run of the scheduled scraper
PersistScheduled ==
  /\ pc = "store"
  /\ saves < MaxRuns
  /\ req.v = "part_002"
  /\ \E names \in DistinctSeqsUpTo({"ann", "bob"}, MaxItems), ok \in BOOLEAN :
       db' = saveProfilesToDatabase_scheduled(db, Acquired(saves, names), ok)
  /\ saves' = saves + 1
  /\ UNCHANGED <<rateLimitMap, now, tracked_profiles, tracking_count, requests,
                 pc, req, profiles, thrown, analyzed, launched, closed, apiLog, aiCalls,
                 aiOuts, sources, run, resp, call>>

NextStore ==
  \/ PersistOnDemand
  \/ PersistScheduled

SpecStore == InitStore /\ [][NextStore]_vars

\* ------------------------------------------------ requests at the middleware
\* most half windows the clock advances by
MaxTicks == 4

InitRate ==
  /\ pc = "middleware"
  /\ req = NoRequest
  /\ profiles = <<>>
  /\ thrown = "none"
  /\ analyzed = <<>>
  /\ launched = 0
  /\ closed = 0
  /\ apiLog = <<>>
  /\ aiCalls = 0
  /\ aiOuts = <<>>
  /\ saves = 0
  /\ db = <<>>
  /\ sources = NoSources
  /\ run = NoRun
  /\ resp = NoResponse
  /\ call = NoCall
  /\ NoLimiter
  /\ NoTracking

\* one request through middleware
Middleware ==
  /\ pc = "middleware"
  /\ \E pathname \in Pathnames, forwarded \in ForwardedFor :
     \E r \in { middleware(rateLimitMap, now, pathname, forwarded) } :
       /\ req' = Incoming(pathname, forwarded, getClientId(forwarded))
       /\ rateLimitMap' = r.map
       /\ resp' = Response(r.status, IF r.status = 429 THEN "error" ELSE "next", <<>>, "none")
  /\ UNCHANGED <<pc, profiles, thrown, analyzed, launched, closed, apiLog, aiCalls, aiOuts,
                 saves, db, sources, run, call, now, tracked_profiles, tracking_count,
                 requests>>

\* half a window passes
Tick ==
  /\ pc = "middleware"
  /\ now < MaxTicks * (RATE_LIMIT.windowMs \div 2)
  /\ now' = now + RATE_LIMIT.windowMs \div 2
  /\ UNCHANGED <<pc, req, profiles, thrown, analyzed, launched, closed, apiLog, aiCalls,
                 aiOuts, saves, db, sources, run, resp, call, rateLimitMap,
                 tracked_profiles, tracking_count, requests>>

NextRate ==
  \/ Middleware
  \/ Tick

SpecRate == InitRate /\ [][NextRate]_vars

\* ------------------------------------------------- track-profile requests
\* most track and untrack requests received
MaxRequests == 3

\* the profile the store holds, the ids and the users a request may name; <<>>
\* stands for a field the request leaves out
StoredProfile == <<"p1">>
TrackedIds == { <<>>, StoredProfile, <<"p9">> }
Users == { <<>>, <<"u1">>, <<"u2">> }

\* a request: where its handler stands, the tracking_count it read, and the
\* status it answered with (0: no answer yet)
TrackRequest(method, profileId, userId, at, read, status) ==
  [method |-> method, profileId |-> profileId, userId |-> userId, at |-> at,
   read |-> read, status |-> status]

\* a row of tracked_profiles
Tracking(profileId, userId) == [profile_id |-> profileId, user_id |-> userId]

\* the handler of request i moves on
Moved(i, at, read, status) ==
  [requests EXCEPT ![i] = TrackRequest(@.method, @.profileId, @.userId, at, read, status)]

InitTrack ==
  /\ pc = "track"
  /\ req = NoRequest
  /\ profiles = <<>>
  /\ thrown = "none"
  /\ analyzed = <<>>
  /\ launched = 0
  /\ closed = 0
  /\ apiLog = <<>>
  /\ aiCalls = 0
  /\ aiOuts = <<>>
  /\ saves = 0
  /\ db = <<>>
  /\ sources = NoSources
  /\ run = NoRun
  /\ resp = NoResponse
  /\ call = NoCall
  /\ NoLimiter
  /\ NoTracking

\* POST up to the answer of the profile lookup; found: the lookup succeeds
TrackPost ==
  /\ pc = "track"
  /\ Len(requests) < MaxRequests
  /\ \E profileId \in TrackedIds, userId \in Users, found \in BOOLEAN :
       requests' = Append(requests,
         IF profileId = <<>> THEN TrackRequest("POST", profileId, userId, "done", 0, 400)
         ELSE IF ~found \/ profileId # StoredProfile
         THEN TrackRequest("POST", profileId, userId, "done", 0, 404)
         ELSE TrackRequest("POST", profileId, userId, "upsert", tracking_count, 0))
  /\ UNCHANGED <<pc, req, profiles, thrown, analyzed, launched, closed, apiLog, aiCalls,
                 aiOuts, saves, db, sources, run, resp, call, rateLimitMap, now,
                 tracked_profiles, tracking_count>>

\* POST: the upsert of the tracking record, on conflict of profile_id and user_id
TrackUpsert ==
  /\ pc = "track"
  /\ \E i \in 1..Len(requests), ok \in BOOLEAN :
       /\ requests[i].at = "upsert"
       /\ IF ok
          THEN /\ tracked_profiles' = tracked_profiles \cup
                    { Tracking(requests[i].profileId,
                               IF requests[i].userId # <<>> THEN requests[i].userId
                               ELSE <<"anonymous">>) }
               /\ requests' = Moved(i, "update", requests[i].read, 0)
          ELSE /\ tracked_profiles' = tracked_profiles
               /\ requests' = Moved(i, "done", requests[i].read, 500)
  /\ UNCHANGED <<pc, req, profiles, thrown, analyzed, launched, closed, apiLog, aiCalls,
                 aiOuts, saves, db, sources, run, resp, call, rateLimitMap, now,
                 tracking_count>>

\* POST: the update of tracking_count to the count read plus one, and the
\* answer; a failed update is only logged
TrackUpdate ==
  /\ pc = "track"
  /\ \E i \in 1..Len(requests), ok \in BOOLEAN :
       /\ requests[i].method = "POST"
       /\ requests[i].at = "update"
       /\ tracking_count' = IF ok THEN requests[i].read + 1 ELSE tracking_count
       /\ requests' = Moved(i, "done", requests[i].read, 200)
  /\ UNCHANGED <<pc, req, profiles, thrown, analyzed, launched, closed, apiLog, aiCalls,
                 aiOuts, saves, db, sources, run, resp, call, rateLimitMap, now,
                 tracked_profiles>>

\* DELETE up to the answer of the delete of the tracking record
UntrackDelete ==
  /\ pc = "track"
  /\ Len(requests) < MaxRequests
  /\ \E profileId \in TrackedIds, userId \in Users, ok \in BOOLEAN :
       IF profileId = <<>> \/ userId = <<>>
       THEN /\ requests' = Append(requests,
                  TrackRequest("DELETE", profileId, userId, "done", 0, 400))
            /\ tracked_profiles' = tracked_profiles
       ELSE IF ~ok
       THEN /\ requests' = Append(requests,
                  TrackRequest("DELETE", profileId, userId, "done", 0, 500))
            /\ tracked_profiles' = tracked_profiles
       ELSE /\ requests' = Append(requests,
                  TrackRequest("DELETE", profileId, userId, "select", 0, 0))
            /\ tracked_profiles' = tracked_profiles \ { Tracking(profileId, userId) }
  /\ UNCHANGED <<pc, req, profiles, thrown, analyzed, launched, closed, apiLog, aiCalls,
                 aiOuts, saves, db, sources, run, resp, call, rateLimitMap, now,
                 tracking_count>>

\* DELETE: the lookup of tracking_count; found: the lookup succeeds
UntrackSelect ==
  /\ pc = "track"
  /\ \E i \in 1..Len(requests), found \in BOOLEAN :
       /\ requests[i].at = "select"
       /\ requests' =
            IF found /\ requests[i].profileId = StoredProfile /\ tracking_count > 0
            THEN Moved(i, "update", tracking_count, 0)
            ELSE Moved(i, "done", 0, 200)
  /\ UNCHANGED <<pc, req, profiles, thrown, analyzed, launched, closed, apiLog, aiCalls,
                 aiOuts, saves, db, sources, run, resp, call, rateLimitMap, now,
                 tracked_profiles, tracking_count>>

\* DELETE: the update of tracking_count to the count read minus one, and the
\* answer; the outcome of the update is not looked at
UntrackUpdate ==
  /\ pc = "track"
  /\ \E i \in 1..Len(requests), ok \in BOOLEAN :
       /\ requests[i].method = "DELETE"
       /\ requests[i].at = "update"
       /\ tracking_count' = IF ok THEN Max(0, requests[i].read - 1) ELSE tracking_count
       /\ requests' = Moved(i, "done", requests[i].read, 200)
  /\ UNCHANGED <<pc, req, profiles, thrown, analyzed, launched, closed, apiLog, aiCalls,
                 aiOuts, saves, db, sources, run, resp, call, rateLimitMap, now,
                 tracked_profiles>>

NextTrack ==
  \/ TrackPost
  \/ TrackUpsert
  \/ TrackUpdate
  \/ UntrackDelete
  \/ UntrackSelect
  \/ UntrackUpdate

SpecTrack == InitTrack /\ [][NextTrack]_vars

\* ------------------------------------------------------------------ claims
OnDemand == req.handler = "onDemand" /\ req.query # <<>>
GenerateLeads == req.handler = "generateLeads" /\ req.query # <<>>

\* C1: every browser session an acquisition call launched is closed once the
\* call has returned or thrown, whichever way it ended.
C1_SessionsClosed == closed = launched

\* a score within [0.0, 1.0]
InUnit(score) == score.t = "number" /\ 0 <= score.n /\ score.n <= 100

\* C2: after the enrichment every profile's score lies in [0, 1], whatever
\* numeric score the model returned.
C2_ScoresInUnit ==
  pc # "analyze" =>
    \A i \in 1..Len(analyzed) :
      (aiOuts[i].kind = "json" => aiOuts[i].score.t = "number")
        => InUnit(analyzed[i].score)

\* the leads of the sources that answered, database first
CombinedLeads ==
  (IF sources.db.kind = "ok" THEN sources.db.items ELSE <<>>)
    \o (IF sources.scrape.kind = "ok" THEN sources.scrape.items ELSE <<>>)

SameKey(a, b) == a.name = b.name /\ a.platform = b.platform

\* the leads of `all` that no earlier lead of `all` shares its natural key with
FirstOfKey(all) ==
  { all[i] : i \in { k \in 1..Len(all) : \A j \in 1..(k - 1) : ~SameKey(all[j], all[k]) } }

\* C3: the generate-leads output holds at most one lead per (name, platform),
\* and it is the first one of the combined input, database leads first.
C3_OneLeadPerKey ==
  (GenerateLeads /\ resp.body = "leads") =>
    /\ \A i, j \in 1..Len(resp.list) : i # j => ~SameKey(resp.list[i], resp.list[j])
    /\ \A i \in 1..Len(resp.list) : resp.list[i] \in FirstOfKey(CombinedLeads)

\* C4: the returned leads are sorted by score, highest first, there are at
\* most `limit` of them, and no deduplicated lead left out has a higher score
\* than a returned one.
C4_SortedAndTruncated ==
  (GenerateLeads /\ resp.body = "leads") =>
    /\ Len(resp.list) <= req.limit
    /\ IsSortedDesc(resp.list)
    /\ \A omitted \in FirstOfKey(CombinedLeads) \ Range(resp.list) :
         \A i \in 1..Len(resp.list) : omitted.score <= resp.list[i].score

\* whether a source of generate-leads failed
SourceFailed(out) == out.kind \in {"throw", "status"}

\* C5: a failed source does not abort the pipeline.  generate-leads answers
\* 200 with leads of the sources that answered (all of them unless `limit`
\* cuts the list); the scheduled scrape attempts every platform and collects
\* what every scraper that did not throw returned.
C5_SourceFailureIsolated ==
  /\ GenerateLeads =>
       /\ resp.status = 200
       /\ resp.body = "leads"
       /\ \A i \in 1..Len(resp.list) : resp.list[i] \in Range(CombinedLeads)
       /\ Len(resp.list) < req.limit =>
            \A l \in Range(CombinedLeads) :
              \E i \in 1..Len(resp.list) : SameKey(resp.list[i], l)
  /\ (req.handler = "scheduled" /\ run.launched = 1) =>
       /\ run.attempted = ScheduledPlatforms
       /\ \A i \in 1..Len(ScheduledPlatforms) :
            \A k \in 1..Len(sources.scrape[i].items) :
              [name |-> sources.scrape[i].items[k], platform |-> ScheduledPlatforms[i]]
                \in Range(run.collected)

\* the database lookup failed and the leads of the live acquisition are returned
C5_Witness ==
  /\ GenerateLeads
  /\ SourceFailed(sources.db)
  /\ sources.scrape.kind = "ok"
  /\ Len(sources.scrape.items) = 2
  /\ Len(resp.list) = 2

\* C6: analyzeProfilesWithAI returns one profile per input profile, in input
\* order, whichever of the model calls fail.
C6_OnePerProfile ==
  pc # "analyze" =>
    /\ Len(analyzed) = Len(profiles)
    /\ \A i \in 1..Len(analyzed) :
         /\ analyzed[i].id = profiles[i].id
         /\ analyzed[i].name = profiles[i].name
         /\ analyzed[i].platform = profiles[i].platform

\* the first of two model calls fails and the second profile is enriched
C6_Witness ==
  /\ pc # "analyze"
  /\ req.v # "route"
  /\ Len(profiles) = 2
  /\ aiOuts[1].kind = "throw"
  /\ aiOuts[2].kind = "json"
  /\ analyzed[1].fit_summary = JStr(<<"Could not analyze profile.">>)
  /\ analyzed[2].fit_summary = JStr(<<"good fit">>)

\* the enrichment of profile i failed: no credential, a network error, or an
\* answer that is not JSON
EnrichmentFailed(i) == ~req.groqKey \/ aiOuts[i].kind \in {"throw", "text"}

FallbackSentences ==
  { DefaultSummary(req.query), JStr(<<"Could not analyze profile.">>) }

\* C7: a profile whose enrichment failed keeps exactly its tags and gets a
\* fallback sentence, not null, as fit_summary.
C7_FallbackOnFailure ==
  pc # "analyze" =>
    \A i \in 1..Len(analyzed) :
      EnrichmentFailed(i) =>
        /\ analyzed[i].tags = profiles[i].tags
        /\ analyzed[i].fit_summary \in FallbackSentences

\* a parsed answer that lacks or mistypes one of the three fields
Malformed(out) ==
  /\ out.kind = "json"
  /\ ~(out.fitSummary.t = "string" /\ out.score.t = "number" /\ out.tags.t = "array")

\* C8: a parsed answer that lacks or mistypes a field is not applied at all:
\* the profile comes out as it does when the model call fails.
C8_NeverPartiallyTrusted ==
  pc # "analyze" =>
    \A i \in 1..Len(analyzed) :
      (req.groqKey /\ Malformed(aiOuts[i])) =>
        <<analyzed[i]>> = AnalyzeOne(req.v, req.query, profiles[i], req.groqKey, AiThrows)

\* the last answer of the GitHub search API was 401 or 403
ApiDeniedAccess ==
  /\ apiLog # <<>>
  /\ apiLog[Len(apiLog)].kind = "status"
  /\ apiLog[Len(apiLog)].status \in {401, 403}

\* C9: a request whose GitHub API call was answered 401 or 403 ends with an
\* error response, never with the empty-result response.
C9_AuthFailureIsAnError ==
  (OnDemand /\ pc \notin {"idle", "scrape"} /\ ApiDeniedAccess) =>
    resp.body \in {"error", "authError"}

\* scrapeProfiles returned, without an error, no profile
FoundNothing ==
  /\ OnDemand
  /\ pc \notin {"idle", "scrape"}
  /\ thrown = "none"
  /\ profiles = <<>>

\* C10: a request whose stages complete without error and find no profile is
\* answered 200 with the empty-result body; the model and the store are not
\* called.
C10_EmptyResult ==
  FoundNothing =>
    /\ pc = "done"
    /\ resp = Response(200, "empty", <<>>, "none")
    /\ aiCalls = 0
    /\ saves = 0

\* the API stage answered an empty list and the request ended with the
\* empty-result response
C10_Witness ==
  /\ FoundNothing
  /\ apiLog = <<Found(<<>>)>>
  /\ resp.body = "empty"

\* a request that lacks its required field
Invalid ==
  /\ req.handler \in {"onDemand", "generateLeads"}
  /\ req.query = <<>>

\* C11: a generate-leads request without companyDNA and an on-demand-scrape
\* request without query are answered 400 at once: no store lookup, no browser,
\* no API call, no model call, no save.
C11_InvalidRequestRejected ==
  Invalid =>
    /\ pc = "done"
    /\ resp = Response(400, "error", <<>>, "none")
    /\ sources = NoSources
    /\ launched = 0
    /\ apiLog = <<>>
    /\ aiCalls = 0
    /\ saves = 0
    /\ db = <<>>
    /\ profiles = <<>> /\ analyzed = <<>>

\* an on-demand-scrape request without query was answered 400
C11_Witness ==
  /\ req.handler = "onDemand"
  /\ req.query = <<>>
  /\ resp.status = 400

\* a prompt made of filler words only (or of nothing)
FillerOnly(prompt) ==
  \A w \in Range(SplitWs(ToLowerCase(prompt), 1, <<>>, FALSE)) :
    w = <<>> \/ w \in Range(fillerWords)

\* C12: parseGitHubQuery never returns an empty filters list, and for an empty
\* or filler-only prompt a filter holds the default term "developer" and none
\* holds the raw prompt.
C12_FiltersNeverEmpty ==
  call.fn = "parseGitHubQuery" =>
    /\ call.result.filters # <<>>
    /\ FillerOnly(call.arg) =>
         /\ \E i \in 1..Len(call.result.filters) :
              Includes(call.result.filters[i], <<"d","e","v","e","l","o","p","e","r">>)
         /\ call.arg # <<>> =>
              \A i \in 1..Len(call.result.filters) :
                ~Includes(call.result.filters[i], call.arg)

\* C13: extractTags returns at most 10 tags, and the same list whenever it is
\* called on the same text.
C13_AtMostTenTags ==
  call.fn = "extractTags" =>
    /\ Len(call.result) <= TagLimit
    /\ call.result = CASE call.v = "route" -> extractTags_route(call.arg)
                       [] call.v = "p5"    -> extractTags(call.arg)
                       [] OTHER            -> extractTags_p2(call.arg)

\* C14: every profile has at most 10 tags, right after the acquisition and
\* after the enrichment has merged the model's tags into it.
C14_TagsBounded ==
  /\ \A i \in 1..Len(profiles) : Len(profiles[i].tags) <= TagLimit
  /\ pc # "analyze" => \A i \in 1..Len(analyzed) : Len(analyzed[i].tags) <= TagLimit

\* a parsed answer with the three fields well typed and only strings as tags
WellFormed(out) ==
  /\ out.kind = "json"
  /\ out.fitSummary.t = "string"
  /\ out.score.t = "number"
  /\ out.tags.t = "array"
  /\ \A j \in 1..Len(out.tags.a) : out.tags.a[j].t = "string"

\* merged holds every original tag and every returned tag, nothing else, once
IsUnion(merged, original, returned) ==
  /\ Range(merged) = Range(original) \cup Range(returned)
  /\ \A i, j \in 1..Len(merged) : i # j => merged[i] # merged[j]

\* C15: after a successful enrichment the profile's tags are the
\* duplicate-free union of its original tags and the tags the model returned,
\* in the on-demand scrape and in the profile analysis of generate-leads.
C15_TagsAreUnion ==
  /\ (req.handler = "onDemand" /\ pc # "analyze") =>
       \A i \in 1..Len(analyzed) :
         (req.groqKey /\ WellFormed(aiOuts[i])) =>
           IsUnion(analyzed[i].tags, profiles[i].tags, aiOuts[i].tags.a)
  /\ (call.fn = "analyzeProfileWithAI" /\ WellFormed(aiOuts[1])) =>
       IsUnion(resp.list[1].tags, call.arg[1].tags, aiOuts[1].tags.a)

\* C16: generate-leads reports source "database" when the store lookup made
\* before the live acquisition brought at least one lead, and "scraped"
\* otherwise; the returned list is what the handler makes of the leads of its
\* sources alone, whatever the source label is.
C16_SourceLabel ==
  (GenerateLeads /\ resp.body = "leads") =>
    /\ resp.source = IF sources.db.kind = "ok" /\ Len(sources.db.items) > 0
                     THEN "database" ELSE "scraped"
    /\ resp.list = IF req.v = "route"
                   THEN Take(SortDesc(Dedup(CombinedLeads), ScoreOf), req.limit)
                   ELSE CombinedLeads

\* the lookup brought a lead, the live acquisition brought another, and the
\* response is labelled "database" and holds both
C16_Witness ==
  /\ GenerateLeads
  /\ sources.db.kind = "ok"
  /\ Len(sources.db.items) = 1
  /\ sources.scrape.kind = "ok"
  /\ Len(sources.scrape.items) > 0
  /\ resp.source = "database"
  /\ Len(resp.list) = 2

\* C17: scrapeGitHubProfiles goes on to the official API exactly when its
\* browser-scrape stage threw or parsed no profile; it does not when the
\* browser-scrape stage parsed at least one profile.
C17_ApiWhenNothingScraped ==
  call.fn = "scrapeGitHubProfiles" =>
    (call.result # <<>> <=> (call.arg.page.kind = "throw" \/ call.arg.parsed = <<>>))

\* the profile of an Organization-type account
IsOrganization(profile) ==
  \E a \in People :
    /\ Account[a].type = "Organization"
    /\ profile.name \in {Account[a].name, Account[a].login}

\* C18: no profile that the GitHub acquisition returns, whichever stage found
\* it, is the profile of an Organization-type account.
C18_NoOrganizations ==
  (OnDemand /\ req.platform = "github") =>
    \A i \in 1..Len(profiles) : ~IsOrganization(profiles[i])

\* the pairs the table of variations relates, key first
SynonymPairs ==
  UNION { { <<variations[i].key, variations[i].values[j]>> :
              j \in 1..Len(variations[i].values) } : i \in 1..Len(variations) }

\* C19: isTagMatch(a, b) is true exactly when a equals b, one of the two
\* contains the other, or the table of variations relates them in either
\* direction; it answers the same for (b, a); "ai" matches "machine learning"
\* and "react" does not match "vue".
C19_TagMatch ==
  call.fn = "isTagMatch" =>
    /\ call.result = ( \/ call.arg[1] = call.arg[2]
                       \/ Includes(call.arg[1], call.arg[2])
                       \/ Includes(call.arg[2], call.arg[1])
                       \/ <<call.arg[1], call.arg[2]>> \in SynonymPairs
                       \/ <<call.arg[2], call.arg[1]>> \in SynonymPairs )
    /\ call.result = isTagMatch(call.arg[2], call.arg[1])
    /\ {call.arg[1], call.arg[2]} = {<<"r","e","a","c","t">>, <<"v","u","e">>} => ~call.result
    /\ {call.arg[1], call.arg[2]} = {<<"a","i">>, <<"m","a","c","h","i","n","e"," ","l","e","a","r","n","i","n","g">>} => call.result

\* "machine learning" against "ai": related by the table, key second
C19_Witness ==
  /\ call.fn = "isTagMatch"
  /\ call.arg = << <<"m","a","c","h","i","n","e"," ","l","e","a","r","n","i","n","g">>, <<"a","i">> >>
  /\ call.result

\* the embedding service failed
Failed(out) == out.kind \in {"throw", "status"}

\* C20: when the embedding service fails, getEmbedding yields the zero vector
\* of 1536 dimensions; calculateCosineSimilarity of a zero vector, or of two
\* vectors of different lengths, is exactly 0; and the score of
\* calculateMatchScore is within [0, 1].
C20_EmbeddingFailure ==
  /\ (call.fn = "getEmbedding" /\ Failed(call.arg)) =>
       /\ Len(call.result) = 1536
       /\ \A i \in 1..Len(call.result) : call.result[i] = 0
  /\ (call.fn = "calculateCosineSimilarity"
      /\ \/ Len(call.arg[1]) # Len(call.arg[2])
         \/ \A i \in 1..Len(call.arg[1]) : call.arg[1][i] = 0
         \/ \A i \in 1..Len(call.arg[2]) : call.arg[2][i] = 0) =>
       call.result.num = 0
  /\ (call.fn = "calculateMatchScore"
      /\ (Failed(call.arg.companyOut) \/ Failed(call.arg.profileOut))) =>
       /\ 0 <= call.result.num
       /\ call.result.num <= call.result.den

\* C21: when the vector similarity is left out of calculateMatchScore (no
\* embedding of the query is passed, or the profile has no bio), the score of
\* a profile whose stored score is in [0, 1] is strictly below 1.
C21_BelowOneWithoutVector ==
  (call.fn = "calculateMatchScore"
   /\ (~call.arg.given \/ call.arg.profile.bio = <<>>)
   /\ InUnit(call.arg.profile.score)) =>
    call.result.num < call.result.den

\* the occurrences of a tag among the tokens of the text
Frequency(text, tag) ==
  LET tokens == SplitWs(Sanitize(text), 1, <<>>, FALSE)
  IN Cardinality({ i \in 1..Len(tokens) : tokens[i] = tag })

FirstOccurrence(text, tag) ==
  LET tokens == SplitWs(Sanitize(text), 1, <<>>, FALSE)
  IN CHOOSE i \in 1..Len(tokens) :
       tokens[i] = tag /\ \A j \in 1..(i - 1) : tokens[j] # tag

\* the tags hold no token twice, no stopword, no number and no single character
CleanTags(tags) ==
  /\ \A i, j \in 1..Len(tags) : tags[i] = tags[j] => i = j
  /\ \A i \in 1..Len(tags) :
       tags[i] \notin commonWords /\ ~AllDigits(tags[i]) /\ Len(tags[i]) > 1

\* the tags come by descending frequency, the first seen first among equals
ByFrequency(text, tags) ==
  \A i, j \in 1..Len(tags) :
    i < j =>
      \/ Frequency(text, tags[i]) > Frequency(text, tags[j])
      \/ /\ Frequency(text, tags[i]) = Frequency(text, tags[j])
         /\ FirstOccurrence(text, tags[i]) < FirstOccurrence(text, tags[j])

\* C22: extractTags of part_005 returns distinct tokens of the text, ordered by
\* descending frequency and by first occurrence among tokens of equal
\* frequency, and never a stopword, a purely numeric token or a token of one
\* character.
C22_TagsByFrequency ==
  (call.fn = "extractTags" /\ call.v = "p5") =>
    CleanTags(call.result) /\ ByFrequency(call.arg, call.result)

\* the part of C22 about what the tags are, without their order
C22_CleanTags ==
  (call.fn = "extractTags" /\ call.v = "p5") => CleanTags(call.result)

\* the prompt names an activity keyword of the revision
NamesActivity(v, prompt) ==
  IF v = "route" THEN Some(ToLowerCase(prompt), activityKeywords)
  ELSE \E i \in 1..Len(activityKeywords_p5) :
         Some(ToLowerCase(prompt), activityKeywords_p5[i].keywords)

\* the sort key is one the keyword mapping gives for a keyword of the prompt
MappedSort(v, prompt, sortBy) ==
  IF v = "route" THEN sortBy = "repositories"
  ELSE \E i \in 1..Len(activityKeywords_p5) :
         /\ activityKeywords_p5[i].sortKey = sortBy
         /\ Some(ToLowerCase(prompt), activityKeywords_p5[i].keywords)

\* what any call of the revision on the prompt may return as sort key
SortKeys(v, prompt) ==
  IF v = "route" THEN { parseGitHubQuery_route(prompt).sortBy }
  ELSE { parseGitHubQuery_p5(prompt, random).sortBy : random \in 0..(Len(sortOptions) - 1) }

\* C23: parseGitHubQuery returns followers, repositories or joined as sortBy;
\* when the prompt names an activity keyword, sortBy is the key the keyword
\* mapping gives and every call on the same prompt returns the same sortBy.
C23_SortBy ==
  call.fn = "parseGitHubQuery" =>
    /\ call.result.sortBy \in {"followers", "repositories", "joined"}
    /\ NamesActivity(call.v, call.arg) =>
         /\ MappedSort(call.v, call.arg, call.result.sortBy)
         /\ SortKeys(call.v, call.arg) = {call.result.sortBy}

\* a call of part_005 on a prompt that names two activities
C23_Witness ==
  /\ call.fn = "parseGitHubQuery"
  /\ call.v = "p5"
  /\ call.arg = <<"P","r","o","l","i","f","i","c"," ","a","n","d"," ","p","o","p","u","l","a","r">>
  /\ call.result.sortBy = "followers"

\* without an activity keyword part_005 draws the sort key at random
C23_RandomWithout ==
  ~(/\ call.fn = "parseGitHubQuery"
    /\ call.v = "p5"
    /\ ~NamesActivity(call.v, call.arg)
    /\ call.result.sortBy = "joined")

\* the score calculateMatchScore gives the i-th profile of a matchProfiles call
ScoreAt(arg, i) ==
  calculateMatchScore(arg.companyDNA, arg.profiles[i], TRUE, getEmbedding(arg.companyOut),
                      arg.outs[arg.profiles[i].id], arg.days[arg.profiles[i].id])

\* the indices of the profiles that pass the platform filter with a score
\* above 0.1
Eligible(arg) ==
  { i \in 1..Len(arg.profiles) :
      /\ arg.platform = <<>> \/ <<arg.profiles[i].platform>> = arg.platform
      /\ 10 * ScoreAt(arg, i).num > ScoreAt(arg, i).den }

\* C24: matchProfiles returns the first limit matches, in non-increasing order
\* of score, among exactly the profiles given that pass the platform filter
\* with a score above 0.1; no profile with a score of 0.1 or less is returned.
C24_TopMatches ==
  call.fn = "matchProfiles" =>
    LET arg == call.arg
        res == call.result
    IN /\ Len(res) = Min(arg.limit, Cardinality(Eligible(arg)))
       /\ \A k \in 1..Len(res) :
            /\ \E i \in Eligible(arg) :
                 res[k].profile = arg.profiles[i] /\ res[k].score = ScoreAt(arg, i)
            /\ 10 * res[k].score.num > res[k].score.den
            /\ k < Len(res) => ~Less(res[k].score, res[k + 1].score)
       /\ \A i \in Eligible(arg) :
            \/ \E k \in 1..Len(res) : res[k].profile = arg.profiles[i]
            \/ Len(res) > 0 /\ ~Less(res[Len(res)].score, ScoreAt(arg, i))
            \/ arg.limit = 0

\* a call that filters by platform, leaves out a profile for its score and
\* another, of a lower score than the one returned, for the limit
C24_Witness ==
  /\ call.fn = "matchProfiles"
  /\ call.arg.platform = <<"github">>
  /\ call.arg.limit = 1
  /\ \E i \in 1..Len(call.arg.profiles) :
       /\ call.arg.profiles[i].platform = "github"
       /\ i \notin Eligible(call.arg)
  /\ Len(call.result) = 1
  /\ \E i \in Eligible(call.arg) :
       /\ Less(ScoreAt(call.arg, i), call.result[1].score)
       /\ \E j \in Eligible(call.arg) : j > i /\ call.result[1].profile = call.arg.profiles[j]

\* C25: after any sequence of acquisition runs that persist their results the
\* store holds at most one record per name and platform: a person already
\* stored is refreshed, not stored a second time, although every run gives the
\* profile a new id.
C25_OnePerKey ==
  pc = "store" =>
    \A i, j \in 1..Len(db) :
      (db[i].name = db[j].name /\ db[i].platform = db[j].platform) => i = j

\* the same for the revisions that upsert on a natural key
C25_OnePerKeyByKey ==
  (pc = "store" /\ req.v # "route") =>
    \A i, j \in 1..Len(db) :
      (db[i].name = db[j].name /\ db[i].platform = db[j].platform) => i = j

\* C26: for every platform and every limit of 0 or more, scrapeProfiles returns
\* at most limit profiles, on the GitHub path with repository contributors and
\* on the path through the official API as well.
C26_AtMostLimit ==
  (call.fn = "scrapeProfiles" /\ call.result.ok) =>
    Len(call.result.val) <= call.arg.limit

\* the same for the revisions of part_005
C26_AtMostLimit_p5 ==
  (call.fn = "scrapeProfiles" /\ call.v # "route" /\ call.result.ok) =>
    Len(call.result.val) <= call.arg.limit

\* the same for limits of 1 or more
C26_AtMostPositiveLimit ==
  (call.fn = "scrapeProfiles" /\ call.arg.limit >= 1 /\ call.result.ok) =>
    Len(call.result.val) <= call.arg.limit

\* the client has a window that is not over
InWindow(clientId) ==
  clientId \in DOMAIN rateLimitMap /\ now <= rateLimitMap[clientId].resetTime

\* what a step that handles a request to a scraping endpoint does
RateLimitStep(clientId) ==
  LET reached == InWindow(clientId) /\ rateLimitMap[clientId].count >= 20
  IN /\ resp'.status = 429 <=> reached
     /\ reached => rateLimitMap' = rateLimitMap
     /\ ~reached =>
          /\ resp'.status = 200
          /\ DOMAIN rateLimitMap' = DOMAIN rateLimitMap \cup {clientId}
          /\ \A c \in DOMAIN rateLimitMap \ {clientId} : rateLimitMap'[c] = rateLimitMap[c]
          /\ rateLimitMap'[clientId] =
               IF InWindow(clientId)
               THEN [count |-> rateLimitMap[clientId].count + 1,
                     resetTime |-> rateLimitMap[clientId].resetTime]
               ELSE [count |-> 1, resetTime |-> now + 60000]
          /\ rateLimitMap'[clientId].count <= 20

\* C27: per client id at most 20 requests to the scraping endpoints pass in
\* one window of 60 seconds; a request is answered 429 exactly when the count
\* of the client's current window has reached 20; a rejected request changes
\* neither the count nor the window; the first request after the reset time
\* passes and starts a window with a fresh count.
C27_RateLimit ==
  [][(pc = "middleware" /\ now' = now /\ RateLimited(req'.pathname)) =>
       RateLimitStep(req'.clientId)]_vars

\* a request rejected in a window that 20 requests used up, while another
\* client's second window is open
C27_Witness ==
  /\ pc = "middleware"
  /\ resp.status = 429
  /\ req.clientId \in DOMAIN rateLimitMap
  /\ rateLimitMap[req.clientId].count = 20
  /\ now = rateLimitMap[req.clientId].resetTime
  /\ \E c \in DOMAIN rateLimitMap :
       /\ c # req.clientId
       /\ rateLimitMap[c].resetTime > 2 * 60000

\* C28: the tag score of calculateTagMatch lies in [0, 1] for every query and
\* every list of profile tags: the matches counted never exceed the longer of
\* the two tag lists.
C28_TagScoreInUnit ==
  call.fn = "calculateTagMatch" =>
    /\ 0 <= call.result.num
    /\ call.result.num <= call.result.den

\* the tag score is never negative
C28_TagScoreNotNegative ==
  call.fn = "calculateTagMatch" => 0 <= call.result.num /\ 0 < call.result.den

\* C29: within one call of scrapeGitHubProfiles the official-API stage
\* scrapeGitHubWithAPI is invoked at most once, also when that stage fails: its
\* failure is not caught and answered by invoking it again.
C29_ApiStageOnce ==
  call.fn = "scrapeGitHubProfiles" => Len(call.result) <= 1

\* the same for the revisions whose API stage returns an empty list on failure
C29_ApiStageOnce_quiet ==
  (call.fn = "scrapeGitHubProfiles" /\ call.v # "p5b") => Len(call.result) <= 1

\* the API stage is invoked again only after it threw on a page without cards
C29_AgainAfterThrow ==
  (call.fn = "scrapeGitHubProfiles" /\ Len(call.result) > 1) =>
    /\ call.v = "p5b"
    /\ call.arg.page = Found(<<>>)
    /\ call.result[1].kind \in {"throw", "status"}
    /\ Len(call.result) = 2

\* every request received has been answered
Answered == \A i \in 1..Len(requests) : requests[i].at = "done"

\* the tracking records of the stored profile
Trackers == { r \in tracked_profiles : r.profile_id = StoredProfile }

\* C30: after any sequence or interleaving of track and untrack requests the
\* tracking_count of a profile is not negative and equals the number of
\* tracked_profiles records of the profile.
C30_CountIsRecords ==
  (pc = "track" /\ Answered) =>
    tracking_count >= 0 /\ tracking_count = Cardinality(Trackers)

\* the tracking_count is never negative
C30_NeverNegative == tracking_count >= 0

\* one user tracks the profile twice, one request after the other and without
\* any failure of the store
C30_TrackedTwice ==
  ~(/\ pc = "track"
    /\ Len(requests) = 2
    /\ \A i \in 1..2 : requests[i] = TrackRequest("POST", StoredProfile, <<"u1">>, "done", i - 1, 200)
    /\ tracking_count = 2
    /\ Cardinality(Trackers) = 1)

====
